---- MODULE Spec2Model ----
(***************************************************************************)
(* Model of the resilient generation client of app/translator.py:          *)
(* the CircuitBreaker class and the buffered (_generate) and streaming     *)
(* (_generate_stream) request paths of OllamaTranslator.                   *)
(*                                                                         *)
(* One OllamaTranslator owns one CircuitBreaker.  The client runs one      *)
(* operation at a time (the callers of this repository await each call):   *)
(* specification Spec.  Specification SpecBreaker is a CircuitBreaker      *)
(* whose three methods are called in any order, as the unit tests do.      *)
(* time.time() is the integer variable now, which only grows.              *)
(*                                                                         *)
(* The initial state is a client whose construction went through:          *)
(* __init__ reads settings.OLLAMA_API_KEY (translator.py:126), a setting   *)
(* that app/config.py does not define, so that the properties of the       *)
(* client hold for an instance built with that setting present.            *)
(*                                                                         *)
(* SpecScenari is the batch pipeline of scenari.py and main.py,            *)
(* SpecPayload the recovery of a JSON payload (main.py), SpecTiers the     *)
(* request payload of either model tier, SpecExtract and SpecProcessor     *)
(* the XMLProcessor of app/xml_processor.py, SpecSanitize the sanitizer    *)
(* of JSON texts (main.py), SpecNested the loop of translate_file on the   *)
(* element tree, for a translator that answers or not.                     *)
(***************************************************************************)
EXTENDS Integers, Sequences, FiniteSets, TLC

\* ---------------------------------------------------------------- bounds
MaxThreshold == 2   \* failure_threshold is drawn from 1..MaxThreshold
MaxTimeout == 2     \* the breaker's timeout is drawn from 1..MaxTimeout
MaxRetries == 3     \* max_retries is drawn from 1..MaxRetries
MaxFailures == 4    \* cap of the failures counter
MaxTime == 5        \* cap of the clock
MaxLines == 2       \* lines read from one streaming response
MaxDocs == 2        \* documents of one batch
MaxParas == 2       \* sc:para elements of one document
MaxPieces == 3      \* pieces of one raw payload
MaxKids == 2        \* child elements of the root of one tree
MaxParses == 2      \* calls of parse on one processor
MaxText == 4        \* characters of a text handed to the sanitizer

\* ------------------------------------------------------------ the state
VARIABLES
    failure_threshold,  \* CircuitBreaker.failure_threshold
    timeout,            \* CircuitBreaker.timeout (reset timeout, seconds)
    failures,           \* CircuitBreaker.failures
    last_failure_time,  \* CircuitBreaker.last_failure_time
    state,              \* CircuitBreaker.state
    max_retries,        \* OllamaTranslator.max_retries
    model,              \* OllamaTranslator.model, used when a call names none
    now,                \* time.time()
    pc,                 \* position of the running client operation
    op,                 \* the method of the client that runs or ran last
    gate,               \* how that operation passed its entry checks
    attempt,            \* loop variable of _generate
    http_requests,      \* requests sent to /api/generate by that operation
    sleeps,             \* arguments of asyncio.sleep in that operation
    wake_at,            \* earliest time the pending sleep returns
    last_outcome,       \* what the backend answered to the last request
    result,             \* value returned by the buffered operation
    cb_succ,            \* call_succeeded reports made by that operation
    cb_fail,            \* call_failed reports made by that operation
    yielded,            \* tokens yielded by the streaming generator
    lines_read,         \* lines consumed from the streaming response
    pending_done,       \* done flag of the record whose token was yielded
    conn_open,          \* the streaming response is open
    exit_path,          \* how the operation left its entry checks or how
                        \* the streaming generator ended
    window,             \* the half-open window that permitted the call: the
                        \* failure time it follows, -1 for a closed breaker
    request,            \* the payload that operation sends as json=payload
    parked,             \* the operation of a second task on the same
                        \* client, suspended while the first one runs
    file_contents,      \* the batch of generate_stream: names and contents
    target_lang,        \* target language of the batch
    gs_pc,              \* position of generate_stream (main.py)
    file_idx,           \* index of the document generate_stream is at
    results,            \* TranslationResult list of generate_stream
    events,             \* events sent by generate_stream
    tf_pc,              \* position of the running translate_file
    tf_locals,          \* its total_elements, idx, total_words and
                        \* translated_count
    tf_yields,          \* the (progress, result) pairs it has yielded
    client_calls,       \* methods the running translate_file asked its
                        \* client for
    unit_translator,    \* methods of the translator of a ScenariTranslator
    unit_root,          \* root of the tree its translate_file parsed, as
                        \* parsed; <<>> before
    unit_pc,            \* position of that translate_file
    unit_idx,           \* segments its loop has been through
    unit_replaced,      \* the elements whose content the loop replaced,
                        \* in order, by their positions in the parsed tree
    unit_count,         \* its translated_count
    unit_result,        \* its TranslationResult, <<>> before
    raw_payload,        \* the text handed to _load_json_payload
    payload,            \* what _load_json_payload returned or raised
    sanitized,          \* what _sanitize_json_string returned for the
                        \* text, <<>> before its call
    xml_contents,       \* the inputs the caller of one XMLProcessor
                        \* hands to parse, in order
    parsed,             \* what the calls of parse returned so far
    tree,               \* XMLProcessor.tree
    root,               \* XMLProcessor.root
    original_encoding,  \* XMLProcessor.original_encoding
    segments,           \* what extract_translatable_segments returned
                        \* since the last call of parse
    output,             \* what to_bytes returned since that call
    api                 \* last call of a breaker method: name, return
                        \* value, breaker state before it, a bit that
                        \* flips on every call, and the run of failures

breaker == <<failures, last_failure_time, state>>
params == <<failure_threshold, timeout, max_retries, model>>
call == <<pc, op, gate, attempt, http_requests, sleeps, wake_at,
          last_outcome, result, cb_succ, cb_fail, yielded, lines_read,
          pending_done, conn_open, exit_path, window, request>>
\* What no operation of the client writes.
units == <<unit_translator, unit_root, unit_pc, unit_idx, unit_replaced,
           unit_count, unit_result>>
scenari == <<file_contents, target_lang, gs_pc, file_idx, results, events,
             tf_pc, tf_locals, tf_yields, client_calls, units>>
recovery == <<raw_payload, payload, sanitized>>
processor == <<xml_contents, parsed, tree, root, original_encoding,
               segments, output>>
outside == <<params, parked, scenari, recovery, processor>>
vars == <<outside, breaker, now, call, api>>

\* ------------------------------------------------------------ values
States == {"closed", "open", "half-open"}

BufferedOps == {"translate_text", "correct_text", "reformulate_text",
                "summarize_meeting", "_generate"}
StreamOps == {"translate_text_stream", "correct_text_stream",
              "reformulate_text_stream", "summarize_meeting_stream",
              "_generate_stream"}

\* Language codes a caller may pass; "de" has no prompt.
Langs == {"fr", "en", "ar", "de"}

\* Faulty variant: the prompt of the pair (ar, en) is missing.
SYSTEM_PROMPTS_five_pairs == {<<"fr", "en">>, <<"fr", "ar">>, <<"en", "fr">>,
                              <<"en", "ar">>, <<"ar", "fr">>}

\* Keys of OllamaTranslator.SYSTEM_PROMPTS
SYSTEM_PROMPTS == {<<"fr", "en">>, <<"fr", "ar">>, <<"en", "fr">>,
                   <<"en", "ar">>, <<"ar", "fr">>, <<"ar", "en">>}

\* Optional[str]
None == [is_none |-> TRUE, text |-> <<>>]
Some(t) == [is_none |-> FALSE, text |-> t]

\* Texts are sequences of characters.
Bodies == {<<>>, <<" ">>, <<" ", "a", " ">>}

\* The whitespace of str.strip() and of the pattern \s
StrWhitespace == {" ", "\t", "\n", "\r", "\f"}

RECURSIVE lstrip(_)
lstrip(s) == IF s # <<>> /\ Head(s) \in StrWhitespace
             THEN lstrip(Tail(s)) ELSE s

RECURSIVE rstrip(_)
rstrip(s) == IF s # <<>> /\ s[Len(s)] \in StrWhitespace
             THEN rstrip(SubSeq(s, 1, Len(s) - 1)) ELSE s

strip(s) == rstrip(lstrip(s))

\* What the backend can answer to one buffered request.  A 200 answer
\* carries a body whose "response" member is a text or is missing/null.
NoOutcome == [kind |-> "none", body |-> None]
Outcomes ==
    {[kind |-> "200", body |-> Some(b)] : b \in Bodies}
    \cup {[kind |-> "200", body |-> None],
          [kind |-> "status", body |-> None],
          [kind |-> "timeout", body |-> None],
          [kind |-> "error", body |-> None]}

\* generated = (data.get("response") or "").strip()
generated(o) == IF o.body.is_none THEN <<>> ELSE strip(o.body.text)

\* Faulty variant: any answer with status 200 ends the call.
attempt_ok_any_body(o) == o.kind = "200"

\* The attempt ends the call with a text.
attempt_ok(o) == o.kind = "200" /\ generated(o) # <<>>

RECURSIVE pow2(_)
pow2(k) == IF k = 0 THEN 1 ELSE 2 * pow2(k - 1)

\* ------------------------------------------------------- CircuitBreaker
Flip(b) == 1 - b

\* The record of a breaker call; run counts the call_failed calls since
\* the last call_succeeded.
Api(name, ret) ==
    [op |-> name, ret |-> ret, pre |-> state, seq |-> Flip(api.seq),
     run |-> IF name = "call_failed" THEN api.run + 1
             ELSE IF name = "call_succeeded" THEN 0 ELSE api.run]

\* Faulty variant: the breaker opens only above the threshold.
call_failed_above_threshold ==
    /\ failures' = failures + 1
    /\ last_failure_time' = now
    /\ state' = IF failures + 1 > failure_threshold THEN "open" ELSE state
    /\ api' = Api("call_failed", FALSE)

\* Faulty variant: a failure of the half-open probe keeps the old time.
call_failed_keeps_time ==
    /\ failures' = failures + 1
    /\ last_failure_time' = IF state = "half-open" THEN last_failure_time
                            ELSE now
    /\ state' = IF failures + 1 >= failure_threshold THEN "open" ELSE state
    /\ api' = Api("call_failed", FALSE)

\* CircuitBreaker.call_failed
call_failed ==
    /\ failures' = failures + 1
    /\ last_failure_time' = now
    /\ state' = IF failures + 1 >= failure_threshold THEN "open" ELSE state
    /\ api' = Api("call_failed", FALSE)

\* Faulty variant: the state is reset but the counter is not.
call_succeeded_keeps_count ==
    /\ state' = "closed"
    /\ UNCHANGED <<failures, last_failure_time>>
    /\ api' = Api("call_succeeded", FALSE)

\* Faulty variant: the counter is reset but the state is not.
call_succeeded_keeps_state ==
    /\ failures' = 0
    /\ UNCHANGED <<state, last_failure_time>>
    /\ api' = Api("call_succeeded", FALSE)

\* CircuitBreaker.call_succeeded
call_succeeded ==
    /\ failures' = 0
    /\ state' = "closed"
    /\ UNCHANGED last_failure_time
    /\ api' = Api("call_succeeded", FALSE)

\* elapsed = time.time() - self.last_failure_time
elapsed == now - last_failure_time

\* Faulty variant: permitted as soon as the timeout is reached.
can_attempt_ret_at_timeout ==
    IF state = "closed" THEN TRUE
    ELSE IF state = "open" THEN elapsed >= timeout
    ELSE TRUE

\* Return value of CircuitBreaker.can_attempt in the current state.
can_attempt_ret ==
    IF state = "closed" THEN TRUE
    ELSE IF state = "open" THEN elapsed > timeout
    ELSE TRUE

\* Faulty variant: half-open as soon as the timeout is reached.
can_attempt_at_timeout ==
    /\ state' = IF state = "open" /\ elapsed >= timeout
                THEN "half-open" ELSE state
    /\ UNCHANGED <<failures, last_failure_time>>
    /\ api' = Api("can_attempt", can_attempt_ret)

\* CircuitBreaker.can_attempt: its effect on the breaker.
can_attempt ==
    /\ state' = IF state = "open" /\ elapsed > timeout
                THEN "half-open" ELSE state
    /\ UNCHANGED <<failures, last_failure_time>>
    /\ api' = Api("can_attempt", can_attempt_ret)

\* ------------------------------------------------- request payloads
\* Model names, as their pieces: OLLAMA_MODEL of config.py, a name of the
\* cloud tier, and a name that holds -cloud but does not end with it.
OLLAMA_MODEL == <<"mistral-small", ":latest">>
Models == {OLLAMA_MODEL, <<"gpt-oss", "-cloud">>, <<"-cloud", ":latest">>}

\* model.endswith("-cloud")
is_cloud_model(used_model) ==
    used_model # <<>> /\ used_model[Len(used_model)] = "-cloud"

\* No payload was built.
NoRequest == [none |-> TRUE]

\* A payload is the dictionary the method builds.  A prompt is the list
\* of its parts: "instruction" is the text of the system instruction of
\* the task, in the brackets the method puts around it, "text" is the
\* wording of the task that ends with the caller's text.  system holds
\* the system instruction and options the sampling parameters.

\* Faulty variant: the cloud tier gets the system field as well.
translate_text_payload_system ==
    [model |-> model,
     prompt |-> IF is_cloud_model(model) THEN <<"instruction", "text">>
                ELSE <<"text">>,
     stream |-> FALSE,
     system |-> "instruction"]
        @@ IF ~is_cloud_model(model) THEN [options |-> "sampling"]
           ELSE <<>>

\* translate_text: full_prompt and payload
translate_text_payload ==
    LET is_cloud == is_cloud_model(model)
        full_prompt == IF is_cloud THEN <<"instruction", "text">>
                       ELSE <<"text">>
    IN [model |-> model, prompt |-> full_prompt, stream |-> FALSE]
           @@ IF ~is_cloud
              THEN [system |-> "instruction", options |-> "sampling"]
              ELSE <<>>

\* correct_text, reformulate_text, summarize_meeting: system_instruction
\* is the bracketed instruction for the cloud tier and "" otherwise, and
\* the prompt starts with it.
TaskPayload(o) ==
    LET is_cloud == is_cloud_model(model)
        system_instruction == IF is_cloud THEN <<"instruction">> ELSE <<>>
        prompt == system_instruction \o <<"text">>
    IN [model |-> model, prompt |-> prompt, stream |-> FALSE]
           @@ IF ~is_cloud
              THEN [system |-> "instruction", options |-> "sampling"]
              ELSE <<>>

\* translate_text_stream: the payload has no stream member yet
translate_text_stream_payload ==
    LET is_cloud == is_cloud_model(model)
        full_prompt == IF is_cloud THEN <<"instruction", "text">>
                       ELSE <<"text">>
    IN [model |-> model, prompt |-> full_prompt]
           @@ IF ~is_cloud
              THEN [system |-> "instruction", options |-> "sampling"]
              ELSE <<>>

\* correct_text_stream, reformulate_text_stream, summarize_meeting_stream
TaskStreamPayload(o) ==
    LET is_cloud == is_cloud_model(model)
        system_instruction == IF is_cloud THEN <<"instruction">> ELSE <<>>
        prompt == system_instruction \o <<"text">>
    IN [model |-> model, prompt |-> prompt]
           @@ IF ~is_cloud
              THEN [system |-> "instruction", options |-> "sampling"]
              ELSE <<>>

\* The payload the method o builds; every call of the model leaves the
\* model argument out, so that used_model is self.model.
PayloadOf(o) ==
    IF o = "translate_text" THEN translate_text_payload
    ELSE IF o = "translate_text_stream" THEN translate_text_stream_payload
    ELSE IF o \in BufferedOps THEN TaskPayload(o)
    ELSE TaskStreamPayload(o)

\* ------------------------------------------------- buffered operations
NewCall(o, g) ==
    /\ op' = o
    /\ gate' = g
    /\ attempt' = 0
    /\ sleeps' = <<>>
    /\ wake_at' = 0
    /\ last_outcome' = NoOutcome
    /\ result' = None
    /\ cb_succ' = 0
    /\ cb_fail' = 0
    /\ yielded' = <<>>
    /\ lines_read' = 0
    /\ pending_done' = FALSE
    /\ exit_path' = IF g \in {"denied", "no_prompt"} THEN g ELSE "none"
    /\ window' = IF g = "passed" /\ state' = "half-open"
                 THEN last_failure_time ELSE -1

Idle == pc = "idle"

\* Entry of translate_text / correct_text / reformulate_text /
\* summarize_meeting up to the first client.post of _generate, to which
\* the operation hands over once the breaker permits the call.
\* Only translate_text looks the language pair up.
BufferedCall(o, src, tgt) ==
    /\ Idle
    /\ can_attempt
    /\ UNCHANGED <<outside, now, conn_open>>
    /\ IF ~can_attempt_ret
       THEN /\ NewCall(o, "denied")
            /\ request' = NoRequest
            /\ http_requests' = 0
            /\ pc' = "done"
       ELSE IF o = "translate_text" /\ <<src, tgt>> \notin SYSTEM_PROMPTS
       THEN /\ NewCall(o, "no_prompt")
            /\ request' = NoRequest
            /\ http_requests' = 0
            /\ pc' = "done"
       ELSE /\ NewCall("_generate", "passed")
            /\ request' = PayloadOf(o)
            /\ http_requests' = 1
            /\ pc' = "awaiting"

translate_text == \E src \in Langs, tgt \in Langs :
                      BufferedCall("translate_text", src, tgt)
correct_text == BufferedCall("correct_text", "fr", "fr")
reformulate_text == BufferedCall("reformulate_text", "fr", "fr")
summarize_meeting == BufferedCall("summarize_meeting", "fr", "fr")

\* Faulty variant: one iteration too many.
has_next_one_more == attempt + 1 <= max_retries

\* for attempt in range(self.max_retries): another iteration follows
has_next == attempt + 1 < max_retries

\* Faulty variant: sleeps after the last attempt too.
should_sleep_always == attempt < max_retries

\* if attempt < self.max_retries - 1: sleep before the next iteration
should_sleep == attempt < max_retries - 1

\* Faulty variant: every failed attempt is reported to the breaker.
LoopNext_report_each ==
    /\ failures < MaxFailures
    /\ call_failed
    /\ cb_fail' = cb_fail + 1
    /\ UNCHANGED cb_succ
    /\ IF has_next
       THEN /\ attempt' = attempt + 1
            /\ http_requests' = http_requests + 1
            /\ pc' = "awaiting"
            /\ UNCHANGED result
       ELSE /\ result' = None
            /\ pc' = "done"
            /\ UNCHANGED <<attempt, http_requests>>

\* Faulty variant: the exhausted call returns without its report.
LoopNext_no_report ==
    IF has_next
    THEN /\ attempt' = attempt + 1
         /\ http_requests' = http_requests + 1
         /\ pc' = "awaiting"
         /\ UNCHANGED <<breaker, api, result, cb_succ, cb_fail>>
    ELSE /\ result' = None
         /\ pc' = "done"
         /\ UNCHANGED <<breaker, api, attempt, http_requests, cb_succ,
                        cb_fail>>

\* End of one iteration of the loop of _generate: the next iteration posts
\* again; after the last one the failure is reported and None returned.
LoopNext ==
    IF has_next
    THEN /\ attempt' = attempt + 1
         /\ http_requests' = http_requests + 1
         /\ pc' = "awaiting"
         /\ UNCHANGED <<breaker, api, result, cb_succ, cb_fail>>
    ELSE /\ failures < MaxFailures
         /\ call_failed
         /\ cb_fail' = cb_fail + 1
         /\ result' = None
         /\ pc' = "done"
         /\ UNCHANGED <<attempt, http_requests, cb_succ>>

\* One iteration of the loop of _generate from the answer of client.post
\* to the next suspension (asyncio.sleep, client.post) or to the return.
GenerateAnswer(o) ==
    /\ pc = "awaiting"
    /\ last_outcome' = o
    /\ UNCHANGED <<outside, now, op, gate, yielded, lines_read,
                   pending_done, conn_open, exit_path, window, request>>
    /\ IF attempt_ok(o)
       THEN /\ call_succeeded
            /\ cb_succ' = cb_succ + 1
            /\ result' = Some(generated(o))
            /\ pc' = "done"
            /\ UNCHANGED <<attempt, http_requests, sleeps, wake_at, cb_fail>>
       ELSE IF should_sleep
       THEN /\ sleeps' = Append(sleeps, pow2(attempt))
            /\ wake_at' = now + pow2(attempt)
            /\ pc' = "sleeping"
            /\ UNCHANGED <<breaker, api, attempt, http_requests, result,
                           cb_succ, cb_fail>>
       ELSE /\ LoopNext
            /\ UNCHANGED <<sleeps, wake_at>>

generate_answer == \E o \in Outcomes : GenerateAnswer(o)

\* asyncio.sleep returns after at least the time asked for.
generate_retry ==
    /\ pc = "sleeping"
    /\ now >= wake_at
    /\ LoopNext
    /\ UNCHANGED <<outside, now, op, gate, sleeps, wake_at, last_outcome,
                   yielded, lines_read, pending_done, conn_open, exit_path,
                   window, request>>

\* The caller has taken the result; the client is free for the next call.
Return ==
    /\ pc = "done"
    /\ NewCall("none", "none")
    /\ request' = NoRequest
    /\ http_requests' = 0
    /\ pc' = "idle"
    /\ UNCHANGED <<outside, breaker, now, api, conn_open>>

\* ------------------------------------------------ streaming operations
\* One line of the chunked response: blank, not JSON, JSON that is not an
\* object, or a record with its "response" fragment ("" when missing) and
\* its "done" flag.
StreamLines ==
    {[kind |-> "blank", token |-> "", done |-> FALSE],
     [kind |-> "invalid", token |-> "", done |-> FALSE],
     [kind |-> "not_object", token |-> "", done |-> FALSE]}
    \cup {[kind |-> "record", token |-> t, done |-> d] :
              t \in {"", "a", "b"}, d \in BOOLEAN}

\* Entry of the *_stream generators up to the request of _generate_stream,
\* to which the generator hands over.
\* translate_text_stream looks the language pair up before the breaker
\* is asked.
StreamCall(o, src, tgt) ==
    /\ Idle
    /\ UNCHANGED <<outside, now, conn_open>>
    /\ IF o = "translate_text_stream" /\ <<src, tgt>> \notin SYSTEM_PROMPTS
       THEN /\ NewCall(o, "no_prompt")
            /\ request' = NoRequest
            /\ http_requests' = 0
            /\ pc' = "done"
            /\ UNCHANGED <<breaker, api>>
       ELSE /\ can_attempt
            /\ IF ~can_attempt_ret
               THEN /\ NewCall(o, "denied")
                    /\ request' = NoRequest
                    /\ http_requests' = 0
                    /\ pc' = "done"
               ELSE /\ NewCall("_generate_stream", "passed")
                    /\ request' = [stream |-> TRUE] @@ PayloadOf(o)
                    /\ http_requests' = 1
                    /\ pc' = "s_connect"

translate_text_stream == \E src \in Langs, tgt \in Langs :
                             StreamCall("translate_text_stream", src, tgt)
correct_text_stream == StreamCall("correct_text_stream", "fr", "fr")
reformulate_text_stream == StreamCall("reformulate_text_stream", "fr", "fr")
summarize_meeting_stream == StreamCall("summarize_meeting_stream", "fr", "fr")

StreamBase == <<outside, now, op, gate, attempt, http_requests, sleeps,
                wake_at, result, window, request>>

\* client.stream(...) answers: an exception, a non-200 status or a 200.
stream_answer ==
    \E k \in {"200", "status", "timeout", "error"} :
        /\ pc = "s_connect"
        /\ last_outcome' = [kind |-> k, body |-> None]
        /\ UNCHANGED <<StreamBase, cb_succ, yielded, lines_read,
                       pending_done>>
        /\ IF k = "200"
           THEN /\ conn_open' = TRUE
                /\ pc' = "s_lines"
                /\ UNCHANGED <<breaker, api, cb_fail, exit_path>>
           ELSE IF k = "status"
           THEN /\ conn_open' = FALSE
                /\ exit_path' = "status"
                /\ pc' = "done"
                /\ UNCHANGED <<breaker, api, cb_fail>>
           ELSE /\ failures < MaxFailures
                /\ call_failed
                /\ cb_fail' = cb_fail + 1
                /\ conn_open' = FALSE
                /\ exit_path' = "exception"
                /\ pc' = "done"

\* Faulty variant: the done flag is looked at before the token is yielded,
\* and the fragment of the last record is lost.
StreamLine_done_first(l) ==
    /\ pc = "s_lines"
    /\ lines_read < MaxLines
    /\ lines_read' = lines_read + 1
    /\ UNCHANGED StreamBase
    /\ IF l.kind = "record" /\ l.done
       THEN /\ call_succeeded
            /\ cb_succ' = cb_succ + 1
            /\ conn_open' = FALSE
            /\ exit_path' = "done_record"
            /\ pc' = "done"
            /\ UNCHANGED <<yielded, pending_done, cb_fail, last_outcome>>
       ELSE IF l.kind = "record" /\ l.token # ""
       THEN /\ yielded' = Append(yielded, l.token)
            /\ pending_done' = FALSE
            /\ pc' = "s_yield"
            /\ UNCHANGED <<breaker, api, conn_open, cb_succ, cb_fail,
                           last_outcome, exit_path>>
       ELSE IF l.kind = "not_object"
       THEN /\ failures < MaxFailures
            /\ call_failed
            /\ cb_fail' = cb_fail + 1
            /\ last_outcome' = [kind |-> "error", body |-> None]
            /\ conn_open' = FALSE
            /\ exit_path' = "exception"
            /\ pc' = "done"
            /\ UNCHANGED <<yielded, pending_done, cb_succ>>
       ELSE /\ pc' = "s_lines"
            /\ UNCHANGED <<breaker, api, conn_open, yielded, pending_done,
                           cb_succ, cb_fail, last_outcome, exit_path>>

\* One line of response.aiter_lines() up to the yield, the next line or
\* the end of the generator.
StreamLine(l) ==
    /\ pc = "s_lines"
    /\ lines_read < MaxLines
    /\ lines_read' = lines_read + 1
    /\ UNCHANGED StreamBase
    /\ IF l.kind = "record" /\ l.token # ""
       THEN /\ yielded' = Append(yielded, l.token)
            /\ pending_done' = l.done
            /\ pc' = "s_yield"
            /\ UNCHANGED <<breaker, api, conn_open, cb_succ, cb_fail,
                           last_outcome, exit_path>>
       ELSE IF l.kind = "record" /\ l.done
       THEN /\ call_succeeded
            /\ cb_succ' = cb_succ + 1
            /\ conn_open' = FALSE
            /\ exit_path' = "done_record"
            /\ pc' = "done"
            /\ UNCHANGED <<yielded, pending_done, cb_fail, last_outcome>>
       ELSE IF l.kind = "not_object"
       THEN /\ failures < MaxFailures
            /\ call_failed
            /\ cb_fail' = cb_fail + 1
            /\ last_outcome' = [kind |-> "error", body |-> None]
            /\ conn_open' = FALSE
            /\ exit_path' = "exception"
            /\ pc' = "done"
            /\ UNCHANGED <<yielded, pending_done, cb_succ>>
       ELSE /\ pc' = "s_lines"
            /\ UNCHANGED <<breaker, api, conn_open, yielded, pending_done,
                           cb_succ, cb_fail, last_outcome, exit_path>>

stream_line == \E l \in StreamLines : StreamLine(l)

\* Faulty variant: the done flag of a record that carried a token ends the
\* generator without the report.
stream_resume_no_report ==
    /\ pc = "s_yield"
    /\ UNCHANGED <<StreamBase, last_outcome, yielded, lines_read, breaker,
                   api, cb_succ, cb_fail>>
    /\ pending_done' = FALSE
    /\ IF pending_done
       THEN /\ conn_open' = FALSE
            /\ exit_path' = "done_record"
            /\ pc' = "done"
       ELSE /\ pc' = "s_lines"
            /\ UNCHANGED <<conn_open, exit_path>>

\* The consumer asks for the next token: the generator goes on after the
\* yield and looks at the done flag of the record.
stream_resume ==
    /\ pc = "s_yield"
    /\ UNCHANGED <<StreamBase, last_outcome, yielded, lines_read>>
    /\ pending_done' = FALSE
    /\ IF pending_done
       THEN /\ call_succeeded
            /\ cb_succ' = cb_succ + 1
            /\ conn_open' = FALSE
            /\ exit_path' = "done_record"
            /\ pc' = "done"
            /\ UNCHANGED cb_fail
       ELSE /\ pc' = "s_lines"
            /\ UNCHANGED <<breaker, api, conn_open, cb_succ, cb_fail,
                           exit_path>>

\* Faulty variant: the response is not held by a context manager, and the
\* generator that is closed at its yield leaves it open.
stream_close_leaves_open ==
    /\ pc = "s_yield"
    /\ UNCHANGED <<StreamBase, last_outcome, yielded, lines_read, breaker,
                   api, cb_succ, cb_fail, conn_open>>
    /\ pending_done' = FALSE
    /\ exit_path' = "closed"
    /\ pc' = "done"

\* The consumer stops iterating: GeneratorExit is raised at the yield; it
\* is not an Exception, so no handler runs, and the response is closed by
\* its context manager.
stream_close ==
    /\ pc = "s_yield"
    /\ UNCHANGED <<StreamBase, last_outcome, yielded, lines_read, breaker,
                   api, cb_succ, cb_fail>>
    /\ pending_done' = FALSE
    /\ conn_open' = FALSE
    /\ exit_path' = "closed"
    /\ pc' = "done"

\* The response ends without a record that carries done.
stream_end ==
    /\ pc = "s_lines"
    /\ UNCHANGED <<StreamBase, last_outcome, yielded, lines_read, breaker,
                   api, cb_succ, cb_fail, pending_done>>
    /\ conn_open' = FALSE
    /\ exit_path' = "exhausted"
    /\ pc' = "done"

\* A timeout or a transport error while the lines are read.
stream_error ==
    \E k \in {"timeout", "error"} :
        /\ pc = "s_lines"
        /\ failures < MaxFailures
        /\ call_failed
        /\ cb_fail' = cb_fail + 1
        /\ last_outcome' = [kind |-> k, body |-> None]
        /\ conn_open' = FALSE
        /\ exit_path' = "exception"
        /\ pc' = "done"
        /\ UNCHANGED <<StreamBase, yielded, lines_read, cb_succ,
                       pending_done>>

\* _stream_generator (main.py) around the running generator: what it has
\* sent to the consumer so far.  The opening comment, one token event per
\* token, and the [DONE] marker once the generator has ended; a
\* generator that its consumer closed is sent nothing more.  The error
\* event is sent for an exception that leaves the generator, and
\* _generate_stream lets none out.
stream_generator ==
    <<[type |-> "comment", data |-> "stream opened"]>>
        \o [k \in 1..Len(yielded) |-> [type |-> "token", data |-> yielded[k]]]
        \o (IF pc = "done" /\ exit_path # "closed"
            THEN <<[type |-> "DONE", data |-> ""]>> ELSE <<>>)

\* --------------------------------------- two tasks share one client
\* The operation the running task is in, as the record in which it waits
\* while the other task runs.
Running ==
    [pc |-> pc, op |-> op, gate |-> gate, attempt |-> attempt,
     http_requests |-> http_requests, sleeps |-> sleeps,
     wake_at |-> wake_at, last_outcome |-> last_outcome, result |-> result,
     cb_succ |-> cb_succ, cb_fail |-> cb_fail, yielded |-> yielded,
     lines_read |-> lines_read, pending_done |-> pending_done,
     conn_open |-> conn_open, exit_path |-> exit_path, window |-> window,
     request |-> request]

\* A task that is in no operation.
NoTask ==
    [pc |-> "idle", op |-> "none", gate |-> "none", attempt |-> 0,
     http_requests |-> 0, sleeps |-> <<>>, wake_at |-> 0,
     last_outcome |-> NoOutcome, result |-> None, cb_succ |-> 0,
     cb_fail |-> 0, yielded |-> <<>>, lines_read |-> 0,
     pending_done |-> FALSE, conn_open |-> FALSE, exit_path |-> "none",
     window |-> -1, request |-> NoRequest]

\* The event loop runs the other task: the running one is suspended at an
\* await (or between two operations) and the parked one goes on.  Nothing
\* in the client serialises the two, and they share the one breaker.
Switch ==
    /\ parked' = Running
    /\ pc' = parked.pc
    /\ op' = parked.op
    /\ gate' = parked.gate
    /\ attempt' = parked.attempt
    /\ http_requests' = parked.http_requests
    /\ sleeps' = parked.sleeps
    /\ wake_at' = parked.wake_at
    /\ last_outcome' = parked.last_outcome
    /\ result' = parked.result
    /\ cb_succ' = parked.cb_succ
    /\ cb_fail' = parked.cb_fail
    /\ yielded' = parked.yielded
    /\ lines_read' = parked.lines_read
    /\ pending_done' = parked.pending_done
    /\ conn_open' = parked.conn_open
    /\ exit_path' = parked.exit_path
    /\ window' = parked.window
    /\ request' = parked.request
    /\ UNCHANGED <<params, scenari, recovery, processor, breaker, now,
                   api>>

\* ----------------------------- SCENARI documents (scenari.py, main.py)
\* The stripped text of a sc:para element, as its list of words: none
\* for an element that is empty or blank.
ParaTexts == {<<>>, <<"a", "b">>}

\* The bytes of an uploaded file: not well-formed XML, or a document with
\* its xml:lang, the encoding its XML declaration declares (<<>> for
\* none) and the sc:para elements that findall returns.  One document
\* declares another encoding than UTF-8.
Malformed == [parses |-> FALSE, lang |-> "", declared |-> <<>>, paras |-> <<>>]
Documents ==
    {Malformed,
     [parses |-> TRUE, lang |-> "fr", declared |-> <<"ISO-8859-1">>,
      paras |-> <<>>]} \cup
    {[parses |-> TRUE, lang |-> "fr", declared |-> <<>>, paras |-> ps] :
         ps \in UNION {[1..n -> ParaTexts] : n \in 0..MaxParas}}

\* File names, as their pieces; the endpoint keeps the names that end
\* with .xml.
FileNames == {<<"a", ".", "xml">>, <<"b", ".", "xml">>}

\* The methods class OllamaTranslator defines.
ClientMethods ==
    {"_is_cloud_model", "__init__", "__aenter__", "__aexit__", "close",
     "check_health", "list_models", "translate_text", "correct_text",
     "reformulate_text", "summarize_meeting", "translate_batch",
     "_generate", "_generate_stream", "translate_text_stream",
     "correct_text_stream", "reformulate_text_stream",
     "summarize_meeting_stream"}

\* translatable = [(el, text) for el in elements if text]
Translatable(doc) == SelectSeq(doc.paras, LAMBDA t : t # <<>>)

\* Places of the "." pieces of a name.
Dots(name) == {i \in 1..Len(name) : name[i] = "."}

\* name_parts = filename.rsplit('.', 1) and the name built from it
TranslatedFilename(name, tgt) ==
    IF Dots(name) # {}
    THEN LET d == CHOOSE i \in Dots(name) : \A j \in Dots(name) : j <= i
         IN SubSeq(name, 1, d - 1) \o <<"_", tgt, ".">>
                \o SubSeq(name, d + 1, Len(name))
    ELSE name \o <<"_", tgt>>

\* root.set(xml:lang, ...) for a target in lang_map, then
\* etree.tostring(tree, encoding='utf-8', xml_declaration=True,
\* pretty_print=True)
Serialized(doc, tgt) ==
    [xml_declaration |-> TRUE,
     encoding |-> <<"utf-8">>,
     pretty_print |-> TRUE,
     lang |-> IF tgt \in {"en", "fr", "ar"} THEN tgt ELSE doc.lang,
     paras |-> doc.paras]

\* A pair yielded by translate_file: the status, the two indices and the
\* presence of an error message of its TranslationProgress, and the
\* result, <<>> for None.
Progress(st, cur, tot, err, res) ==
    [status |-> st, current_element |-> cur, total_elements |-> tot,
     error_message |-> err, result |-> res]

\* The event generate_stream sends for a pair of the document at index i.
ProgressEvent(i, pr) ==
    [type |-> "progress",
     data |-> [file_index |-> i, total_files |-> Len(file_contents),
               status |-> pr.status,
               current_element |-> pr.current_element,
               total_elements |-> pr.total_elements,
               error |-> pr.error_message]]

\* What the consumer of translate_file does with a pair: send the event,
\* keep the result.
Consume(i, pr) ==
    /\ tf_yields' = Append(IF i = file_idx THEN tf_yields ELSE <<>>, pr)
    /\ events' = Append(events, ProgressEvent(i, pr))
    /\ results' = results \o pr.result

\* Faulty variant: the syntax error is not caught in translate_file and
\* reaches the handler of generate_stream, which ends the batch.
ParseFailed_aborts(i) ==
    /\ tf_yields' = <<>>
    /\ events' = Append(events, [type |-> "error", data |-> <<>>])
    /\ tf_pc' = "raised"
    /\ gs_pc' = "closed"
    /\ tf_locals' = [total_elements |-> 0, idx |-> 0, total_words |-> 0,
                     translated_count |-> 0]
    /\ UNCHANGED results

\* except etree.XMLSyntaxError: one error pair, then return.
ParseFailed(i) ==
    /\ Consume(i, Progress("error", 0, 0, TRUE, <<>>))
    /\ tf_pc' = "ended"
    /\ tf_locals' = [total_elements |-> 0, idx |-> 0, total_words |-> 0,
                     translated_count |-> 0]
    /\ UNCHANGED gs_pc

\* The end of translate_file, after the loop: language, serialisation,
\* name, and the done pair with the TranslationResult.
Finish(i, f, loc) ==
    /\ Consume(i, Progress("done", loc.total_elements, loc.total_elements,
                           FALSE,
            <<[original_filename |-> f.name,
               translated_filename |->
                   TranslatedFilename(f.name, target_lang),
               translated_content |-> Serialized(f.content, target_lang),
               elements_translated |-> loc.translated_count,
               total_words |-> loc.total_words]>>))
    /\ tf_pc' = "ended"
    /\ tf_locals' = loc
    /\ UNCHANGED gs_pc

\* The head of the loop for the segment at index k: count its words and
\* yield the translating pair.
Segment(i, f, loc, k) ==
    /\ Consume(i, Progress("translating", k, loc.total_elements, FALSE,
                           <<>>))
    /\ tf_pc' = "translating"
    /\ tf_locals' = [loc EXCEPT
                       !.idx = k,
                       !.total_words = @ + Len(Translatable(f.content)[k])]
    /\ UNCHANGED gs_pc

\* generate_stream takes the next document of the batch and translate_file
\* runs on it up to its first yield.
translate_file ==
    /\ gs_pc = "running"
    /\ tf_pc \in {"none", "ended"}
    /\ file_idx < Len(file_contents)
    /\ file_idx' = file_idx + 1
    /\ LET i == file_idx + 1
           f == file_contents[i]
           loc == [total_elements |-> Len(Translatable(f.content)),
                   idx |-> 0, total_words |-> 0, translated_count |-> 0]
       IN IF ~f.content.parses THEN ParseFailed(i)
          ELSE IF loc.total_elements = 0 THEN Finish(i, f, loc)
          ELSE Segment(i, f, loc, 1)
    /\ client_calls' = <<>>
    /\ UNCHANGED <<file_contents, target_lang>>
    /\ UNCHANGED <<units, params, parked, recovery, processor, breaker,
                   now, call, api>>

\* await self.translator.translate_xml_text(...): OllamaTranslator has no
\* such method, the attribute lookup raises AttributeError; translate_file
\* does not catch it, generate_stream does and sends an error event.
translate_xml_text ==
    /\ gs_pc = "running"
    /\ tf_pc = "translating"
    /\ "translate_xml_text" \notin ClientMethods
    /\ client_calls' = Append(client_calls, "translate_xml_text")
    /\ tf_pc' = "raised"
    /\ events' = Append(events, [type |-> "error", data |-> <<>>])
    /\ gs_pc' = "closed"
    /\ UNCHANGED <<file_contents, target_lang, file_idx, results,
                   tf_locals, tf_yields>>
    /\ UNCHANGED <<units, params, parked, recovery, processor, breaker,
                   now, call, api>>

\* create_zip_from_results: one writestr per result, in order.
create_zip_from_results(rs) ==
    [i \in 1..Len(rs) |->
         [name |-> rs[i].translated_filename,
          content |-> rs[i].translated_content]]

\* Faulty variant: the artifact is chosen by the number of documents.
CompleteEvent_by_documents ==
    IF Len(file_contents) = 1 /\ Len(results) = 1
    THEN <<[type |-> "complete",
            data |-> [filename |-> results[1].translated_filename,
                      content_type |-> "application/xml",
                      content |-> results[1].translated_content]]>>
    ELSE IF Len(results) >= 1
    THEN <<[type |-> "complete",
            data |-> [filename |->
                          <<"scenari_translated_", target_lang, ".", "zip">>,
                      content_type |-> "application/zip",
                      content |-> create_zip_from_results(results)]]>>
    ELSE <<>>

\* The complete event of generate_stream, chosen by len(results).
CompleteEvent ==
    IF Len(results) = 1
    THEN <<[type |-> "complete",
            data |-> [filename |-> results[1].translated_filename,
                      content_type |-> "application/xml",
                      content |-> results[1].translated_content]]>>
    ELSE IF Len(results) > 1
    THEN <<[type |-> "complete",
            data |-> [filename |->
                          <<"scenari_translated_", target_lang, ".", "zip">>,
                      content_type |-> "application/zip",
                      content |-> create_zip_from_results(results)]]>>
    ELSE <<>>

\* After the last document: the complete event, if any, and [DONE].
aggregate ==
    /\ gs_pc = "running"
    /\ tf_pc \in {"none", "ended"}
    /\ file_idx = Len(file_contents)
    /\ events' = events \o CompleteEvent
                        \o <<[type |-> "DONE", data |-> <<>>]>>
    /\ gs_pc' = "closed"
    /\ UNCHANGED <<file_contents, target_lang, file_idx, results, tf_pc,
                   tf_locals, tf_yields, client_calls>>
    /\ UNCHANGED <<units, params, parked, recovery, processor, breaker,
                   now, call, api>>

\* ------------------------- payload recovery (main.py, _load_json_payload)
\* Texts are sequences of one-character strings.  The inputs hold no
\* character outside the ones named in this section: no "-", ".", "e",
\* "N" or "I" that a number could start or go on with.
JsonWhitespace == {" ", "\t", "\n", "\r"}          \* json.decoder.WHITESPACE
ControlChars == {"\t", "\n", "\r", "\f"}           \* ord(char) < 32
Digits == {"0", "1", "2", "3", "4", "5", "6", "7", "8", "9"}

\* text[a:b] of Python for 1-based a and an exclusive end b
Slice(text, a, b) == SubSeq(text, a, b - 1)

\* text.startswith(prefix, at)
StartsWith(text, at, prefix) ==
    /\ at + Len(prefix) - 1 <= Len(text)
    /\ SubSeq(text, at, at + Len(prefix) - 1) = prefix

\* text.find(sub, at): the first place at or after at, 0 when there is none
Find(text, sub, at) ==
    LET places == {p \in at..Len(text) : StartsWith(text, p, sub)}
    IN IF places = {} THEN 0
       ELSE CHOOSE p \in places : \A q \in places : p <= q

\* The first place at or after at whose character is not in ws.
SkipOver(text, at, ws) ==
    LET places == {p \in at..Len(text) : text[p] \notin ws}
    IN IF places = {} THEN Len(text) + 1
       ELSE CHOOSE p \in places : \A q \in places : p <= q

\* The backquote character, which a string of this language cannot hold.
Backquote == "'"

Fence == <<Backquote, Backquote, Backquote>>
JsonFence == Fence \o <<"j", "s", "o", "n">>

\* What the scanner appends for a control character inside a string.
EscapeControl(char) ==
    IF char = "\n" THEN <<"\\", "n">>
    ELSE IF char = "\r" THEN <<"\\", "r">>
    ELSE IF char = "\t" THEN <<"\\", "t">>
    ELSE IF char = "\f" THEN <<"\\", "u", "0", "0", "0", "c">>
    ELSE <<char>>

\* The loop of _sanitize_json_string from the character at i on.
RECURSIVE SanitizeFrom(_, _, _, _)
SanitizeFrom(text, i, in_string, escape_next) ==
    IF i > Len(text) THEN <<>>
    ELSE LET char == text[i]
         IN IF escape_next
            THEN <<char>> \o SanitizeFrom(text, i + 1, in_string, FALSE)
            ELSE IF char = "\\"
            THEN <<char>> \o SanitizeFrom(text, i + 1, in_string, TRUE)
            ELSE IF char = "\""
            THEN <<char>> \o SanitizeFrom(text, i + 1, ~in_string, FALSE)
            ELSE (IF in_string THEN EscapeControl(char) ELSE <<char>>)
                     \o SanitizeFrom(text, i + 1, in_string, FALSE)

\* Faulty variant: the scanner starts inside a string.
sanitize_json_string_from_inside(text) == SanitizeFrom(text, 1, TRUE, FALSE)

sanitize_json_string(text) == SanitizeFrom(text, 1, FALSE, FALSE)

\* ---- json.loads: a value is [t, v]; t is its type, v its content: the
\* characters of a string, the digits of an integer, the values of a
\* list, the mapping from its keys of an object.
JNull == [t |-> "null", v |-> <<>>]
JBool(b) == [t |-> "bool", v |-> <<b>>]
JNum(ds) == [t |-> "int", v |-> ds]
JStr(cs) == [t |-> "str", v |-> cs]
JList(vs) == [t |-> "list", v |-> vs]

\* dict(pairs): of two pairs with one key the later one wins.
JDict(pairs) ==
    [t |-> "dict",
     v |-> [k \in {pairs[j][1] : j \in DOMAIN pairs} |->
                LET js == {j \in DOMAIN pairs : pairs[j][1] = k}
                IN pairs[CHOOSE j \in js : \A h \in js : h <= j][2]]]

\* JSONDecodeError
NoParse == [ok |-> FALSE, v |-> JNull, end |-> 0]
Parsed(val, e) == [ok |-> TRUE, v |-> val, end |-> e]

\* The character a backslash escape stands for.
Unescaped(char) ==
    IF char = "n" THEN "\n"
    ELSE IF char = "r" THEN "\r"
    ELSE IF char = "t" THEN "\t"
    ELSE IF char = "f" THEN "\f"
    ELSE IF char = "b" THEN "\\b"
    ELSE char

\* py_scanstring in strict mode, from the character after the opening
\* quote; \uXXXX is decoded for the code the sanitizer writes.
RECURSIVE ScanString(_, _, _)
ScanString(s, i, acc) ==
    IF i > Len(s) THEN NoParse
    ELSE IF s[i] = "\"" THEN Parsed(JStr(acc), i + 1)
    ELSE IF s[i] = "\\"
    THEN IF i + 1 > Len(s) THEN NoParse
         ELSE IF s[i + 1] \in {"\"", "\\", "/", "b", "f", "n", "r", "t"}
         THEN ScanString(s, i + 2, Append(acc, Unescaped(s[i + 1])))
         ELSE IF StartsWith(s, i + 1, <<"u", "0", "0", "0", "c">>)
         THEN ScanString(s, i + 6, Append(acc, "\f"))
         ELSE NoParse
    ELSE IF s[i] \in ControlChars THEN NoParse
    ELSE ScanString(s, i + 1, Append(acc, s[i]))

\* NUMBER_RE at i, for integers without sign: 0, or a run of digits.
ScanNumber(s, i) ==
    IF s[i] = "0" THEN Parsed(JNum(<<"0">>), i + 1)
    ELSE LET e == SkipOver(s, i, Digits)
         IN Parsed(JNum(Slice(s, i, e)), e)

RECURSIVE ScanOnce(_, _), ScanMembers(_, _, _), ScanElements(_, _, _)
\* JSONObject after a key has to come: "key" : value, then "," or "}"
ScanMembers(s, i, pairs) ==
    IF i > Len(s) \/ s[i] # "\"" THEN NoParse
    ELSE LET key == ScanString(s, i + 1, <<>>)
         IN IF ~key.ok THEN NoParse
            ELSE LET c == SkipOver(s, key.end, JsonWhitespace)
                 IN IF c > Len(s) \/ s[c] # ":" THEN NoParse
                    ELSE LET val == ScanOnce(
                                 s, SkipOver(s, c + 1, JsonWhitespace))
                         IN IF ~val.ok THEN NoParse
                            ELSE LET n == SkipOver(s, val.end,
                                                   JsonWhitespace)
                                     all == Append(pairs,
                                                   <<key.v.v, val.v>>)
                                 IN IF n > Len(s) THEN NoParse
                                    ELSE IF s[n] = "}"
                                    THEN Parsed(JDict(all), n + 1)
                                    ELSE IF s[n] = ","
                                    THEN ScanMembers(
                                             s,
                                             SkipOver(s, n + 1,
                                                      JsonWhitespace),
                                             all)
                                    ELSE NoParse

\* JSONArray after a value has to come: value, then "," or "]"
ScanElements(s, i, vals) ==
    LET val == ScanOnce(s, i)
    IN IF ~val.ok THEN NoParse
       ELSE LET n == SkipOver(s, val.end, JsonWhitespace)
                all == Append(vals, val.v)
            IN IF n > Len(s) THEN NoParse
               ELSE IF s[n] = "]" THEN Parsed(JList(all), n + 1)
               ELSE IF s[n] = ","
               THEN ScanElements(s, SkipOver(s, n + 1, JsonWhitespace),
                                 all)
               ELSE NoParse

\* scan_once: the value that starts at i
ScanOnce(s, i) ==
    IF i > Len(s) THEN NoParse
    ELSE IF s[i] = "\"" THEN ScanString(s, i + 1, <<>>)
    ELSE IF s[i] = "{"
    THEN LET n == SkipOver(s, i + 1, JsonWhitespace)
         IN IF n <= Len(s) /\ s[n] = "}" THEN Parsed(JDict(<<>>), n + 1)
            ELSE ScanMembers(s, n, <<>>)
    ELSE IF s[i] = "["
    THEN LET n == SkipOver(s, i + 1, JsonWhitespace)
         IN IF n <= Len(s) /\ s[n] = "]" THEN Parsed(JList(<<>>), n + 1)
            ELSE ScanElements(s, n, <<>>)
    ELSE IF StartsWith(s, i, <<"n", "u", "l", "l">>)
    THEN Parsed(JNull, i + 4)
    ELSE IF StartsWith(s, i, <<"t", "r", "u", "e">>)
    THEN Parsed(JBool(TRUE), i + 4)
    ELSE IF StartsWith(s, i, <<"f", "a", "l", "s", "e">>)
    THEN Parsed(JBool(FALSE), i + 5)
    ELSE IF s[i] \in Digits THEN ScanNumber(s, i)
    ELSE NoParse

\* json.loads(s): one value between whitespace and nothing else
loads(s) ==
    LET val == ScanOnce(s, SkipOver(s, 1, JsonWhitespace))
    IN IF val.ok /\ SkipOver(s, val.end, JsonWhitespace) = Len(s) + 1
       THEN val ELSE NoParse

\* re.findall of the json_blocks pattern with re.DOTALL, from the place
\* at on: a block opens at the first json fence, its text starts after
\* the whitespace that follows and ends before the whitespace that
\* precedes the first fence found from there; the search goes on after
\* that fence.
RECURSIVE FindBlocks(_, _)
FindBlocks(text, at) ==
    LET opened == Find(text, JsonFence, at)
    IN IF opened = 0 THEN <<>>
       ELSE LET a == SkipOver(text, opened + Len(JsonFence), StrWhitespace)
                q == Find(text, Fence, a)
            IN IF q = 0 THEN <<>>
               ELSE <<rstrip(Slice(text, a, q))>>
                        \o FindBlocks(text, q + Len(Fence))

\* Faulty variant: the blocks are tried from the first one on.
TryBlocks_first_to_last(json_blocks, k) ==
    LET accepted ==
            {j \in 1..k :
                 loads(sanitize_json_string(strip(json_blocks[j]))).ok}
    IN IF accepted = {} THEN NoParse
       ELSE loads(sanitize_json_string(strip(json_blocks[
                CHOOSE j \in accepted : \A h \in accepted : j <= h])))

\* for block in reversed(json_blocks), from the block at k down: the
\* first one that json.loads accepts once stripped and sanitized.
RECURSIVE TryBlocks(_, _)
TryBlocks(json_blocks, k) ==
    IF k = 0 THEN NoParse
    ELSE LET attempt_k == loads(sanitize_json_string(strip(json_blocks[k])))
         IN IF attempt_k.ok THEN attempt_k
            ELSE TryBlocks(json_blocks, k - 1)

\* cleaned: the stripped payload without one opening and one closing
\* fence, stripped again.
Cleaned(raw) ==
    LET c0 == strip(raw)
        c1 == IF StartsWith(c0, 1, JsonFence)
              THEN Slice(c0, 8, Len(c0) + 1)
              ELSE IF StartsWith(c0, 1, Fence)
              THEN Slice(c0, 4, Len(c0) + 1)
              ELSE c0
        c2 == IF Len(c1) >= 3 /\ StartsWith(c1, Len(c1) - 2, Fence)
              THEN Slice(c1, 1, Len(c1) - 2)
              ELSE c1
    IN strip(c2)

\* Faulty variant: the depth counter also counts the braces inside string
\* literals.
RECURSIVE MatchingBrace_counting_in_strings(_, _, _, _, _)
MatchingBrace_counting_in_strings(text, i, depth, in_string, escape_next) ==
    IF i > Len(text) THEN 0
    ELSE LET char == text[i]
         IN IF escape_next
            THEN MatchingBrace_counting_in_strings(text, i + 1, depth,
                                                   in_string, FALSE)
            ELSE IF char = "\\"
            THEN MatchingBrace_counting_in_strings(text, i + 1, depth,
                                                   in_string, TRUE)
            ELSE IF char = "{"
            THEN MatchingBrace_counting_in_strings(text, i + 1, depth + 1,
                                                   in_string, FALSE)
            ELSE IF char = "}"
            THEN IF depth - 1 = 0 THEN i
                 ELSE MatchingBrace_counting_in_strings(text, i + 1,
                                                        depth - 1,
                                                        in_string, FALSE)
            ELSE MatchingBrace_counting_in_strings(text, i + 1, depth,
                                                   in_string, FALSE)

\* The inner for loop of the brace scan, at the character i: the place
\* of the "}" that brings depth back to 0, or 0 when the text ends first.
RECURSIVE MatchingBrace(_, _, _, _, _)
MatchingBrace(text, i, depth, in_string, escape_next) ==
    IF i > Len(text) THEN 0
    ELSE LET char == text[i]
         IN IF escape_next
            THEN MatchingBrace(text, i + 1, depth, in_string, FALSE)
            ELSE IF char = "\\"
            THEN MatchingBrace(text, i + 1, depth, in_string, TRUE)
            ELSE IF char = "\""
            THEN MatchingBrace(text, i + 1, depth, ~in_string, FALSE)
            ELSE IF in_string
            THEN MatchingBrace(text, i + 1, depth, in_string, FALSE)
            ELSE IF char = "{"
            THEN MatchingBrace(text, i + 1, depth + 1, in_string, FALSE)
            ELSE IF char = "}"
            THEN IF depth - 1 = 0 THEN i
                 ELSE MatchingBrace(text, i + 1, depth - 1, in_string,
                                    FALSE)
            ELSE MatchingBrace(text, i + 1, depth, in_string, FALSE)

\* The while loop of the brace scan from the "{" at brace_start (0: no
\* "{" is left): the first balanced candidate that json.loads accepts.
RECURSIVE BraceScan(_, _)
BraceScan(cleaned, brace_start) ==
    IF brace_start = 0 THEN NoParse
    ELSE LET e == MatchingBrace(cleaned, brace_start, 0, FALSE, FALSE)
             candidate == Slice(cleaned, brace_start, e + 1)
             attempt_c == IF e = 0 THEN NoParse
                          ELSE loads(sanitize_json_string(candidate))
         IN IF attempt_c.ok THEN attempt_c
            ELSE BraceScan(cleaned, Find(cleaned, <<"{">>, brace_start + 1))

\* What a call of _load_json_payload ends with.
Returned(val) == [raised |-> "", status_code |-> 0, value |-> val]
HTTPException(code) ==
    [raised |-> "HTTPException", status_code |-> code, value |-> JNull]

\* _load_json_payload(raw_payload, context)
load_json_payload_of(raw) ==
    LET blocks == FindBlocks(raw, 1)
        s1 == TryBlocks(blocks, Len(blocks))
        cleaned == Cleaned(raw)
        s3 == BraceScan(cleaned, Find(cleaned, <<"{">>, 1))
        s4 == loads(sanitize_json_string(cleaned))
    IN IF s1.ok THEN Returned(s1.v)
       ELSE IF s3.ok THEN Returned(s3.v)
       ELSE IF s4.ok THEN Returned(s4.v)
       ELSE HTTPException(502)

\* json.dumps(x) with its default separators, for a value without
\* control character: the keys of an object in the order keys.
RECURSIVE DumpsString(_), dumps(_), DumpsItems(_, _), DumpsMembers(_, _)
DumpsString(cs) ==
    IF cs = <<>> THEN <<>>
    ELSE (IF Head(cs) \in {"\"", "\\"} THEN <<"\\", Head(cs)>>
          ELSE <<Head(cs)>>) \o DumpsString(Tail(cs))

DumpsItems(vs, k) ==
    IF k > Len(vs) THEN <<>>
    ELSE (IF k > 1 THEN <<",", " ">> ELSE <<>>)
             \o dumps(vs[k]) \o DumpsItems(vs, k + 1)

DumpsMembers(d, keys) ==
    IF keys = {} THEN <<>>
    ELSE LET k == CHOOSE key \in keys : TRUE
         IN <<"\"">> \o DumpsString(k) \o <<"\"", ":", " ">> \o dumps(d[k])
                \o (IF keys = {k} THEN <<>> ELSE <<",", " ">>)
                \o DumpsMembers(d, keys \ {k})

dumps(x) ==
    IF x.t = "str" THEN <<"\"">> \o DumpsString(x.v) \o <<"\"">>
    ELSE IF x.t = "int" THEN x.v
    ELSE IF x.t = "list" THEN <<"[">> \o DumpsItems(x.v, 1) \o <<"]">>
    ELSE IF x.t = "dict"
    THEN <<"{">> \o DumpsMembers(x.v, DOMAIN x.v) \o <<"}">>
    ELSE IF x.t = "bool"
    THEN (IF x.v[1] THEN <<"t", "r", "u", "e">>
          ELSE <<"f", "a", "l", "s", "e">>)
    ELSE <<"n", "u", "l", "l">>

\* The text made of the pieces ps, one after the other.
RECURSIVE Joined(_)
Joined(ps) == IF ps = <<>> THEN <<>> ELSE Head(ps) \o Joined(Tail(ps))

\* What a model answers is made of: single characters, fences, an
\* object, and fenced blocks that hold an object, a list or a text that
\* is no JSON.
Pieces ==
    {<<c>> : c \in {"{", "}", "[", "]", "\"", "\\", ":", ",", "k", "1",
                     " ", "\n"}}
    \cup {Fence, JsonFence,
          <<"{", "\"", "k", "\"", ":", "1", "}">>,
          JsonFence \o <<"\n", "{", "\"", "a", "\"", ":", "2", "}", "\n">>
              \o Fence,
          JsonFence \o <<"[", "1", "]">> \o Fence,
          JsonFence \o <<" ", "{", " ">> \o Fence}

\* The string values of the objects that are serialized: with braces,
\* with fences, with a quote.
StringValues ==
    {<<>>, <<"a">>, <<"{">>, <<"}", "{">>, <<"\"">>, Fence,
     JsonFence \o <<" ", "1", " ">> \o Fence,
     JsonFence \o <<"{", "}">> \o Fence}

\* Structured objects: one or two keys, values that are strings,
\* integers and objects.
Objects ==
    LET leaves == {JStr(cs) : cs \in StringValues} \cup {JNum(<<"1">>)}
        inner == {JDict(<<<<<<"k">>, l>>>>) : l \in leaves}
    IN {JDict(<<>>)}
       \cup {JDict(<<<<<<"k">>, val>>>>) : val \in leaves \cup inner}
       \cup {JDict(<<<<<<"k">>, l>>, <<<<"a">>, JNum(<<"2">>)>>>>) :
                 l \in leaves}

\* The raw texts handed to _load_json_payload.
RawPayloads ==
    {Joined(ps) : ps \in UNION {[1..n -> Pieces] : n \in 0..MaxPieces}}
    \cup {dumps(x) : x \in Objects}

NotCalled == [raised |-> "", status_code |-> -1, value |-> JNull]

\* data = _load_json_payload(raw_response, ...) in an endpoint
load_json_payload ==
    /\ payload = NotCalled
    /\ payload' = load_json_payload_of(raw_payload)
    /\ UNCHANGED <<raw_payload, sanitized, params, parked, scenari,
                   processor, breaker, now, call, api>>

\* The texts handed to _sanitize_json_string on its own: MaxText
\* characters at most, among them the quote, the backslash and the
\* control characters.
SanitizerTexts ==
    UNION {[1..n -> {"\"", "\\", "\n", "\r", "\t", "\f", "a", "{"}] :
               n \in 0..MaxText}

\* sanitized = _sanitize_json_string(text)
sanitize ==
    /\ sanitized = <<>>
    /\ sanitized' = <<sanitize_json_string(raw_payload)>>
    /\ UNCHANGED <<raw_payload, payload, params, parked, scenari,
                   processor, breaker, now, call, api>>

\* --------------------------------- XMLProcessor (app/xml_processor.py)
\* A tag is a namespace prefix of SCENARI_NAMESPACES, or none, and a local
\* name.  An element is its tag, its direct text (<<>> for None, else
\* <<characters>>) and its child elements.
Tag(ns, name) == [ns |-> ns, name |-> name]
Element(tag, text, kids) == [tag |-> tag, text |-> text, kids |-> kids]

SCENARI_NAMESPACES == {"sc", "sp"}

TEXT_ELEMENT_XPATHS ==
    <<Tag("sc", "para"), Tag("sc", "title"), Tag("sc", "item"),
      Tag("sc", "caption"), Tag("sc", "legend"), Tag("sc", "label"),
      Tag("sc", "question"), Tag("sc", "answer"), Tag("sc", "comment"),
      Tag("sc", "description"), Tag("sp", "txt")>>

IGNORE_ELEMENTS ==
    {"code", "math", "equation", "ref", "link", "url", "img", "image",
     "video", "audio", "file"}

\* An element of a tree is known by its position: the child indices that
\* lead to it from the root.
RECURSIVE ElementAt(_, _)
ElementAt(el, pos) ==
    IF pos = <<>> THEN el ELSE ElementAt(el.kids[Head(pos)], Tail(pos))

\* elem.getparent(), of an element that is not the root
getparent(pos) == SubSeq(pos, 1, Len(pos) - 1)

\* The positions of el, at pos, and of its descendants, in document order.
RECURSIVE DocOrder(_, _), DocOrderFrom(_, _, _)
DocOrder(el, pos) == <<pos>> \o DocOrderFrom(el, pos, 1)

DocOrderFrom(el, pos, i) ==
    IF i > Len(el.kids) THEN <<>>
    ELSE DocOrder(el.kids[i], Append(pos, i)) \o DocOrderFrom(el, pos, i + 1)

\* self.root.xpath(".//ns:name"): the descendants of the root with that
\* tag, in document order.
xpath(rt, expr) ==
    SelectSeq(Tail(DocOrder(rt, <<>>)), LAMBDA p : ElementAt(rt, p).tag = expr)

\* One step of a locator: the tag, and the index f"{tag}[{index}]" adds,
\* 0 for a step without index.
Step(tag, index) == [tag |-> tag, index |-> index]

\* Faulty variant: no step carries an index.
LocatorStep_no_index(rt, pos) ==
    Step(ElementAt(rt, pos).tag, 0)

\* The step _get_element_xpath inserts for the element at pos, which has
\* a parent: siblings = [e for e in parent if e.tag == current.tag].
LocatorStep(rt, pos) ==
    LET parent == ElementAt(rt, getparent(pos))
        current == ElementAt(rt, pos)
        siblings == {i \in 1..Len(parent.kids) :
                         parent.kids[i].tag = current.tag}
    IN IF Cardinality(siblings) > 1
       THEN Step(current.tag,
                 Cardinality({i \in siblings : i <= pos[Len(pos)]}))
       ELSE Step(current.tag, 0)

\* _get_element_xpath: the steps from the root down to the element.  The
\* string the code joins them into is one per sequence of steps, a tag
\* holding no "[".
get_element_xpath(rt, pos) ==
    <<Step(rt.tag, 0)>>
        \o [k \in 1..Len(pos) |-> LocatorStep(rt, SubSeq(pos, 1, k))]

\* The tuple appended for the element at pos.
SegmentOf(rt, pos) ==
    [elem |-> pos, xpath |-> get_element_xpath(rt, pos),
     text |-> strip(ElementAt(rt, pos).text[1])]

\* Faulty variant: the parent of a selected element is not looked at.
Kept_without_parent_check(rt, pos) ==
    LET elem == ElementAt(rt, pos)
    IN /\ elem.text # <<>>
       /\ strip(elem.text[1]) # <<>>
       /\ elem.tag.name \notin IGNORE_ELEMENTS

\* The three tests of the loop body that let an element through.
Kept(rt, pos) ==
    LET elem == ElementAt(rt, pos)
    IN /\ elem.text # <<>>
       /\ strip(elem.text[1]) # <<>>
       /\ elem.tag.name \notin IGNORE_ELEMENTS
       /\ ElementAt(rt, getparent(pos)).tag.name \notin IGNORE_ELEMENTS

\* The segments of the expressions from index x on.
RECURSIVE SegmentsFrom(_, _)
SegmentsFrom(rt, x) ==
    IF x > Len(TEXT_ELEMENT_XPATHS) THEN <<>>
    ELSE LET elements == xpath(rt, TEXT_ELEMENT_XPATHS[x])
             kept == SelectSeq(elements, LAMBDA p : Kept(rt, p))
         IN [i \in 1..Len(kept) |-> SegmentOf(rt, kept[i])]
                \o SegmentsFrom(rt, x + 1)

\* extract_translatable_segments, of self.root (<<>> for None)
extract_translatable_segments_of(rt) ==
    IF rt = <<>> THEN <<>> ELSE SegmentsFrom(rt[1], 1)

\* The bytes of an input: the pieces of its XML declaration, none for a
\* text without one, and its body, <<>> for a body that is not
\* well-formed, else <<the root element>>.  No body holds the text
\* encoding=" .
Quote == "\""
Apostrophe == "U+0027"
XmlContent(prolog, body) == [prolog |-> prolog, body |-> body]

Declaration(attributes) ==
    <<"<?xml", " version=\"1.0\"">> \o attributes \o <<"?>">>

Prologs ==
    {<<>>,
     Declaration(<<>>),
     Declaration(<<" ", "encoding=", Quote, "UTF-8", Quote>>),
     Declaration(<<" ", "encoding=", Quote, "ISO-8859-1", Quote>>),
     Declaration(<<" ", "encoding=", Apostrophe, "ISO-8859-1", Apostrophe>>)}

\* The encoding the XML declaration of an input declares, <<>> for none.
DeclaredEncoding(c) ==
    LET at == {i \in 1..Len(c.prolog) - 2 :
                   /\ c.prolog[i] = "encoding="
                   /\ c.prolog[i + 1] \in {Quote, Apostrophe}}
    IN IF c.prolog # <<>> /\ c.prolog[1] = "<?xml" /\ at # {}
       THEN <<c.prolog[(CHOOSE i \in at : \A j \in at : i <= j) + 2]>>
       ELSE <<>>

\* The encoding parse reads from the bytes: what lies between the first
\* encoding=" and the next ", if the bytes start with <?xml; <<>> if it
\* reads none.
DetectedEncoding(c) ==
    LET starts == {i \in 1..Len(c.prolog) - 1 :
                       c.prolog[i] = "encoding=" /\ c.prolog[i + 1] = Quote}
    IN IF c.prolog # <<>> /\ c.prolog[1] = "<?xml" /\ starts # {}
       THEN LET encoding_start ==
                    (CHOOSE i \in starts : \A j \in starts : i <= j) + 2
                ends == {j \in encoding_start..Len(c.prolog) :
                             c.prolog[j] = Quote}
                encoding_end ==
                    IF ends = {} THEN Len(c.prolog)
                    ELSE CHOOSE j \in ends : \A k \in ends : j <= k
            IN <<SubSeq(c.prolog, encoding_start, encoding_end - 1)>>
       ELSE <<>>

\* etree.tostring(tree, encoding=..., xml_declaration=True,
\* pretty_print=...): the declaration it writes, and the tree with its
\* namespace declarations.
tostring(tr, encoding, pretty_print) ==
    [xml_declaration |-> TRUE, encoding |-> encoding,
     pretty_print |-> pretty_print, root |-> tr.root, nsmap |-> tr.nsmap]

\* to_bytes, of self.tree (<<>> for None): <<>> for b"".
to_bytes_of(tr, encoding) ==
    IF tr = <<>> THEN <<>> ELSE <<tostring(tr[1], encoding, FALSE)>>

NotExtracted == [called |-> FALSE, value |-> <<>>]
NotSerialized == [called |-> FALSE, bytes |-> <<>>]

\* processor.parse(xml_content), for the next input of the caller
parse ==
    /\ Len(parsed) < Len(xml_contents)
    /\ LET xml_content == xml_contents[Len(parsed) + 1]
       IN IF xml_content.body # <<>>
          THEN /\ tree' = <<[root |-> xml_content.body[1],
                             nsmap |-> SCENARI_NAMESPACES]>>
               /\ root' = xml_content.body
               /\ original_encoding' =
                      IF DetectedEncoding(xml_content) # <<>>
                      THEN DetectedEncoding(xml_content)[1]
                      ELSE original_encoding
               /\ parsed' = Append(parsed, TRUE)
          ELSE /\ parsed' = Append(parsed, FALSE)
               /\ UNCHANGED <<tree, root, original_encoding>>
    /\ segments' = NotExtracted
    /\ output' = NotSerialized
    /\ UNCHANGED <<xml_contents, params, parked, scenari, recovery,
                   breaker, now, call, api>>

\* segments = processor.extract_translatable_segments()
extract_translatable_segments ==
    /\ ~segments.called
    /\ segments' = [called |-> TRUE,
                    value |-> extract_translatable_segments_of(root)]
    /\ UNCHANGED <<xml_contents, parsed, tree, root, original_encoding,
                   output>>
    /\ UNCHANGED <<params, parked, scenari, recovery, breaker, now, call,
                   api>>

\* output = processor.to_bytes()
to_bytes ==
    /\ ~output.called
    /\ output' = [called |-> TRUE,
                  bytes |-> to_bytes_of(tree, original_encoding)]
    /\ UNCHANGED <<xml_contents, parsed, tree, root, original_encoding,
                   segments>>
    /\ UNCHANGED <<params, parked, scenari, recovery, breaker, now, call,
                   api>>

\* The direct texts of the elements of the inputs: none, blank, and a
\* word with white space around it.
Blank == <<" ", "\n">>
Padded == <<" ", "t", "\n">>
Texts == {<<>>, <<Blank>>, <<Padded>>}

\* Elements without child, elements with one child at most, and the
\* trees: a sc:item root with MaxKids children at most.
Leaves ==
    {Element(Tag("sc", "para"), t, <<>>) : t \in Texts}
    \cup {Element(Tag("sc", "code"), <<Padded>>, <<>>),
          Element(Tag("sc", "title"), <<Padded>>, <<>>)}

Inner ==
    {Element(h[1], h[2], ks) :
         h \in {<<Tag("sc", "para"), <<Padded>>>>, <<Tag("sc", "code"), <<>>>>,
                <<Tag("sc", "section"), <<>>>>},
         ks \in {<<>>} \cup {<<l>> : l \in Leaves}}

Trees ==
    {Element(Tag("sc", "item"), <<>>, ks) :
         ks \in UNION {[1..n -> Leaves \cup Inner] : n \in 0..MaxKids}}

\* ------------- translate_file on the element tree (app/scenari.py)
\* The loop of translate_file on the parsed tree, for the translator the
\* ScenariTranslator was built with.  An element is known by its position
\* in the parsed tree; the tree as the loop has changed it is the parsed
\* tree with the content of the elements at the replaced positions
\* swapped for the translated text.
TRANSLATABLE_TAG == Tag("sc", "para")

\* What a translator that answers returns for a segment.
TranslatedText == <<"T">>

\* _get_element_text: "".join(element.itertext()), the direct text of the
\* element and the texts of its descendants, in document order.
RECURSIVE itertext(_), itertextFrom(_, _)
itertext(el) ==
    (IF el.text = <<>> THEN <<>> ELSE el.text[1]) \o itertextFrom(el, 1)

itertextFrom(el, i) ==
    IF i > Len(el.kids) THEN <<>>
    ELSE itertext(el.kids[i]) \o itertextFrom(el, i + 1)

\* elements = root.findall('.//sc:para'); translatable = the ones whose
\* stripped text is not empty.  The list is built once, before the loop.
translatable(rt) ==
    SelectSeq(xpath(rt, TRANSLATABLE_TAG),
              LAMBDA p : strip(itertext(ElementAt(rt, p))) # <<>>)

\* for child in list(element): element.remove(child), then
\* element.text = translated_text, done on the elements at the positions
\* in done: the element el, parsed at pos, as it is in the tree afterwards.
RECURSIVE Replace(_, _, _)
Replace(el, pos, done) ==
    IF pos \in done THEN Element(el.tag, <<TranslatedText>>, <<>>)
    ELSE Element(el.tag, el.text,
                 [i \in 1..Len(el.kids) |->
                      Replace(el.kids[i], Append(pos, i), done)])

\* tree = etree.parse(...), root = tree.getroot(), the list of segments.
unit_parse ==
    /\ unit_pc = "none"
    /\ \E t \in Trees : unit_root' = <<t>>
    /\ unit_pc' = "loop"
    /\ unit_idx' = 0
    /\ unit_replaced' = <<>>
    /\ unit_count' = 0
    /\ UNCHANGED <<unit_translator, unit_result>>
    /\ UNCHANGED <<file_contents, target_lang, gs_pc, file_idx, results,
                   events, tf_pc, tf_locals, tf_yields, client_calls>>
    /\ UNCHANGED <<params, parked, recovery, processor, breaker, now,
                   call, api>>

\* One turn of the loop: await self.translator.translate_xml_text(...),
\* which raises AttributeError for a translator without that method and
\* else answers a text or nothing; a segment with a text has its children
\* removed and its text replaced, and is counted.
unit_translate ==
    /\ unit_pc = "loop"
    /\ unit_idx < Len(translatable(unit_root[1]))
    /\ unit_idx' = unit_idx + 1
    /\ IF "translate_xml_text" \notin unit_translator
       THEN /\ unit_pc' = "raised"
            /\ UNCHANGED <<unit_replaced, unit_count>>
       ELSE /\ unit_pc' = "loop"
            /\ \E translated_text \in {<<>>, <<TranslatedText>>} :
                   IF translated_text # <<>>
                   THEN /\ unit_replaced' =
                               Append(unit_replaced,
                                      translatable(unit_root[1])[unit_idx + 1])
                        /\ unit_count' = unit_count + 1
                   ELSE UNCHANGED <<unit_replaced, unit_count>>
    /\ UNCHANGED <<unit_translator, unit_root, unit_result>>
    /\ UNCHANGED <<file_contents, target_lang, gs_pc, file_idx, results,
                   events, tf_pc, tf_locals, tf_yields, client_calls>>
    /\ UNCHANGED <<params, parked, recovery, processor, breaker, now,
                   call, api>>

\* After the loop: etree.tostring(tree, ...) and the TranslationResult.
unit_serialize ==
    /\ unit_pc = "loop"
    /\ unit_idx = Len(translatable(unit_root[1]))
    /\ unit_pc' = "ended"
    /\ unit_result' =
           <<[elements_translated |-> unit_count,
              translated_content |->
                  Replace(unit_root[1], <<>>,
                          {unit_replaced[k] : k \in 1..Len(unit_replaced)})]>>
    /\ UNCHANGED <<unit_translator, unit_root, unit_idx, unit_replaced,
                   unit_count>>
    /\ UNCHANGED <<file_contents, target_lang, gs_pc, file_idx, results,
                   events, tf_pc, tf_locals, tf_yields, client_calls>>
    /\ UNCHANGED <<params, parked, recovery, processor, breaker, now,
                   call, api>>

\* The inputs of the calls of parse on one processor: any declaration,
\* and a body that is not well-formed or one of two small trees.
XmlBodies ==
    {<<>>,
     <<Element(Tag("sc", "item"), <<>>,
               <<Element(Tag("sc", "para"), <<Padded>>, <<>>)>>)>>,
     <<Element(Tag("sc", "item"), <<>>,
               <<Element(Tag("sc", "title"), <<Padded>>, <<>>)>>)>>}

XmlContents == {XmlContent(p, b) : p \in Prologs, b \in XmlBodies}

\* ------------------------------- the breaker on its own (unit tests)
BreakerCallFailed ==
    /\ Idle
    /\ failures < MaxFailures
    /\ call_failed
    /\ UNCHANGED <<outside, now, call>>

BreakerCallSucceeded ==
    /\ Idle
    /\ call_succeeded
    /\ UNCHANGED <<outside, now, call>>

BreakerCanAttempt ==
    /\ Idle
    /\ can_attempt
    /\ UNCHANGED <<outside, now, call>>

\* ---------------------------------------------------------- the clock
Tick ==
    /\ now < MaxTime
    /\ now' = now + 1
    /\ UNCHANGED <<outside, breaker, call, api>>

\* ------------------------------------------------------ specification
InitClientOf(m) ==
    /\ model = m
    /\ request = NoRequest
    /\ failure_threshold \in 1..MaxThreshold
    /\ timeout \in 1..MaxTimeout
    /\ max_retries \in 1..MaxRetries
    /\ failures = 0
    /\ last_failure_time = 0
    /\ state = "closed"
    /\ now = 0
    /\ pc = "idle"
    /\ op = "none"
    /\ gate = "none"
    /\ attempt = 0
    /\ http_requests = 0
    /\ sleeps = <<>>
    /\ wake_at = 0
    /\ last_outcome = NoOutcome
    /\ result = None
    /\ cb_succ = 0
    /\ cb_fail = 0
    /\ yielded = <<>>
    /\ lines_read = 0
    /\ pending_done = FALSE
    /\ conn_open = FALSE
    /\ exit_path = "none"
    /\ window = -1
    /\ parked = NoTask
    /\ api = [op |-> "none", ret |-> FALSE, pre |-> "closed", seq |-> 0,
              run |-> 0]

\* A client with the model of the settings.
InitClient == InitClientOf(OLLAMA_MODEL)

\* translate_file has not begun on a tree; ms are the methods of the
\* translator the ScenariTranslator was built with.
InitUnits(ms) ==
    /\ unit_translator = ms
    /\ unit_root = <<>>
    /\ unit_pc = "none"
    /\ unit_idx = 0
    /\ unit_replaced = <<>>
    /\ unit_count = 0
    /\ unit_result = <<>>

\* generate_stream at its first line, for the batch fs and the target tgt.
InitFiles(fs, tgt) ==
    /\ file_contents = fs
    /\ target_lang = tgt
    /\ file_idx = 0
    /\ results = <<>>
    /\ events = <<>>
    /\ tf_pc = "none"
    /\ tf_locals = [total_elements |-> 0, idx |-> 0, total_words |-> 0,
                    translated_count |-> 0]
    /\ tf_yields = <<>>
    /\ client_calls = <<>>

\* The same, and a ScenariTranslator built with an OllamaTranslator.
InitBatch(fs, tgt) ==
    /\ InitFiles(fs, tgt)
    /\ InitUnits(ClientMethods)

\* No call of _load_json_payload.
InitRecovery ==
    /\ raw_payload = <<>>
    /\ payload = NotCalled
    /\ sanitized = <<>>

\* A new XMLProcessor, and the inputs cs its caller will hand to parse.
InitProcessor(cs) ==
    /\ xml_contents = cs
    /\ parsed = <<>>
    /\ tree = <<>>
    /\ root = <<>>
    /\ original_encoding = <<"utf-8">>
    /\ segments = NotExtracted
    /\ output = NotSerialized

\* A client, no batch of documents and no input of a processor.
Init ==
    /\ InitClient
    /\ gs_pc = "none"
    /\ InitBatch(<<>>, "en")
    /\ InitRecovery
    /\ InitProcessor(<<>>)

Next ==
    \/ translate_text
    \/ correct_text
    \/ reformulate_text
    \/ summarize_meeting
    \/ generate_answer
    \/ generate_retry
    \/ Return
    \/ translate_text_stream
    \/ correct_text_stream
    \/ reformulate_text_stream
    \/ summarize_meeting_stream
    \/ stream_answer
    \/ stream_line
    \/ stream_resume
    \/ stream_close
    \/ stream_end
    \/ stream_error
    \/ Tick

\* The client as the application runs it.
Spec == Init /\ [][Next]_vars

\* A CircuitBreaker on its own, its methods called in any order.
NextBreaker ==
    \/ BreakerCallFailed
    \/ BreakerCallSucceeded
    \/ BreakerCanAttempt
    \/ Tick

SpecBreaker == Init /\ [][NextBreaker]_vars

\* Two tasks call the buffered translate_text of one shared client that
\* is configured without retries (OLLAMA_MAX_RETRIES = 1).
InitShared == Init /\ max_retries = 1

NextShared ==
    \/ translate_text
    \/ generate_answer
    \/ Return
    \/ Switch
    \/ Tick

SpecShared == InitShared /\ [][NextShared]_vars

\* The batches the endpoint hands to generate_stream: one document at
\* least, names that end with .xml, a supported target language.
Batches ==
    UNION {[1..n -> [name : FileNames, content : Documents]] :
               n \in 1..MaxDocs}

\* POST /scenari/translate: generate_stream with its own new client.
InitScenari ==
    /\ InitClient
    /\ failure_threshold = 1
    /\ timeout = 1
    /\ max_retries = 1
    /\ gs_pc = "running"
    /\ \E fs \in Batches, tgt \in {"en", "ar"} : InitBatch(fs, tgt)
    /\ InitRecovery
    /\ InitProcessor(<<>>)

NextScenari ==
    \/ translate_file
    \/ translate_xml_text
    \/ aggregate

SpecScenari == InitScenari /\ [][NextScenari]_vars

\* An endpoint hands the text its client returned to _load_json_payload.
InitPayload ==
    /\ InitClient
    /\ failure_threshold = 1
    /\ timeout = 1
    /\ max_retries = 1
    /\ gs_pc = "none"
    /\ InitBatch(<<>>, "en")
    /\ raw_payload \in RawPayloads
    /\ payload = NotCalled
    /\ sanitized = <<>>
    /\ InitProcessor(<<>>)

NextPayload == load_json_payload

SpecPayload == InitPayload /\ [][NextPayload]_vars

\* _sanitize_json_string is called on a text.
InitSanitize ==
    /\ InitClient
    /\ failure_threshold = 1
    /\ timeout = 1
    /\ max_retries = 1
    /\ gs_pc = "none"
    /\ InitBatch(<<>>, "en")
    /\ raw_payload \in SanitizerTexts
    /\ payload = NotCalled
    /\ sanitized = <<>>
    /\ InitProcessor(<<>>)

NextSanitize == sanitize

SpecSanitize == InitSanitize /\ [][NextSanitize]_vars

\* Clients of either tier, with a threshold and a timeout of 1.
InitTiers ==
    /\ \E m \in Models : InitClientOf(m)
    /\ failure_threshold = 1
    /\ timeout = 1
    /\ gs_pc = "none"
    /\ InitBatch(<<>>, "en")
    /\ InitRecovery
    /\ InitProcessor(<<>>)

SpecTiers == InitTiers /\ [][Next]_vars

\* translate_file runs on one tree, for a ScenariTranslator built with an
\* OllamaTranslator, as main.py builds it, or with an object that defines
\* translate_xml_text, as the AsyncMock of tests/test_scenari.py does.
InitNested ==
    /\ InitClient
    /\ failure_threshold = 1
    /\ timeout = 1
    /\ max_retries = 1
    /\ gs_pc = "none"
    /\ InitFiles(<<>>, "en")
    /\ \E ms \in {ClientMethods, {"translate_text", "translate_xml_text"}} :
           InitUnits(ms)
    /\ InitRecovery
    /\ InitProcessor(<<>>)

NextNested ==
    \/ unit_parse
    \/ unit_translate
    \/ unit_serialize

SpecNested == InitNested /\ [][NextNested]_vars

\* One document with a UTF-8 declaration is parsed, its segments are
\* extracted and it is serialised, as the unit tests do.
InitExtract ==
    /\ InitClient
    /\ failure_threshold = 1
    /\ timeout = 1
    /\ max_retries = 1
    /\ gs_pc = "none"
    /\ InitBatch(<<>>, "en")
    /\ InitRecovery
    /\ \E t \in Trees :
           InitProcessor(<<XmlContent(
               Declaration(<<" ", "encoding=", Quote, "UTF-8", Quote>>),
               <<t>>)>>)

NextProcessor ==
    \/ parse
    \/ extract_translatable_segments
    \/ to_bytes

SpecExtract == InitExtract /\ [][NextProcessor]_vars

\* One processor parses MaxParses inputs at most, one after the other.
InitParses ==
    /\ InitClient
    /\ failure_threshold = 1
    /\ timeout = 1
    /\ max_retries = 1
    /\ gs_pc = "none"
    /\ InitBatch(<<>>, "en")
    /\ InitRecovery
    /\ \E cs \in UNION {[1..n -> XmlContents] : n \in 1..MaxParses} :
           InitProcessor(cs)

SpecProcessor == InitParses /\ [][NextProcessor]_vars

TypeOK ==
    /\ state \in States
    /\ failures \in 0..MaxFailures
    /\ now \in 0..MaxTime
    /\ pc \in {"idle", "awaiting", "sleeping", "s_connect", "s_lines",
              "s_yield", "done"}
    /\ conn_open \in BOOLEAN

\* ============================================================== claims
\* A step in which the breaker method name is called.
ApiStep(name) == api'.seq # api.seq /\ api'.op = name

\* A step in which a client operation is entered.
EntryStep == pc = "idle" /\ pc' # "idle"

\* The breaker denies the call: open, and no more than the reset timeout
\* elapsed since the last failure.
Denies == state = "open" /\ now - last_failure_time <= timeout

Buffered == op \in BufferedOps

\* The buffered call sent requests and none was answered with a text.
Exhausted == /\ Buffered
             /\ pc = "done"
             /\ gate = "passed"
             /\ ~attempt_ok(last_outcome)

\* C1: while the breaker denies the call, entering any buffered operation
\* or any streaming generator ends at once with no result and no token,
\* sends no HTTP request, and leaves the breaker's state, failure count
\* and failure time as they were.
C1_DeniedCallDoesNothing ==
    [][(EntryStep /\ Denies) =>
          /\ pc' = "done"
          /\ result' = None
          /\ yielded' = <<>>
          /\ http_requests' = 0
          /\ conn_open' = FALSE
          /\ UNCHANGED <<state, failures, last_failure_time>>]_vars

C1_Witness ==
    /\ gate = "denied"
    /\ op = "summarize_meeting"
    /\ pc = "done"
    /\ state = "open"

\* C2: counting the call_failed reports since construction or the last
\* call_succeeded: with fewer than failure_threshold of them the breaker
\* is closed and can_attempt returns true; right after exactly
\* failure_threshold of them it is open, and can_attempt returns false as
\* long as no more than the reset timeout has elapsed.
C2_OpensAtThreshold ==
    /\ [](api.run < failure_threshold =>
              state = "closed" /\ can_attempt_ret)
    /\ []((api.run = failure_threshold /\ api.op = "call_failed") =>
              state = "open")
    /\ [][(ApiStep("can_attempt") /\ api.run < failure_threshold) =>
              api'.ret = TRUE /\ state' = "closed"]_vars
    /\ [][(/\ ApiStep("can_attempt")
           /\ api.run = failure_threshold
           /\ api.op = "call_failed"
           /\ now - last_failure_time <= timeout) =>
              api'.ret = FALSE /\ state' = "open"]_vars

C2_Witness ==
    /\ failure_threshold = 2
    /\ api.run = failure_threshold
    /\ api.op = "can_attempt"
    /\ api.pre = "open"
    /\ api.ret = FALSE

\* C3: a can_attempt call on an open breaker returns true and moves the
\* breaker to half-open when more than the reset timeout has elapsed since
\* the last recorded failure; otherwise it returns false and the breaker
\* stays open.
C3_OpenToHalfOpen ==
    [][(ApiStep("can_attempt") /\ state = "open") =>
          IF now - last_failure_time > timeout
          THEN api'.ret = TRUE /\ state' = "half-open"
          ELSE api'.ret = FALSE /\ state' = "open"]_vars

C3_Witness ==
    /\ api.op = "can_attempt"
    /\ api.pre = "open"
    /\ api.ret = TRUE
    /\ state = "half-open"

\* C4: once the breaker is half-open, and until call_succeeded or
\* call_failed is reported (either of which leaves half-open), every
\* further can_attempt returns false.
C4_HalfOpenAdmitsOneCall ==
    [][(ApiStep("can_attempt") /\ state = "half-open") =>
          api'.ret = FALSE]_vars

\* C5: call_succeeded sets failures to 0 and state to closed whatever the
\* state and the failure count were, and a can_attempt that follows it
\* returns true.
C5_SuccessResets ==
    [][/\ ApiStep("call_succeeded") => (failures' = 0 /\ state' = "closed")
       /\ (api.op = "call_succeeded" /\ ApiStep("can_attempt")) =>
              (api'.ret = TRUE /\ state' = "closed" /\ failures' = 0)]_vars

C5_Witness ==
    /\ api.op = "call_succeeded"
    /\ api.pre = "half-open"
    /\ state = "closed"
    /\ failures = 0

\* C6: a call_failed on a half-open breaker makes it open and sets the
\* failure time to the time of that call; the can_attempt that follows
\* returns true exactly when more than the reset timeout has elapsed since
\* that time.
C6_HalfOpenFailureRestartsTimer ==
    [][/\ (ApiStep("call_failed") /\ state = "half-open") =>
              (state' = "open" /\ last_failure_time' = now)
       /\ (/\ ApiStep("can_attempt")
           /\ api.op = "call_failed"
           /\ api.pre = "half-open") =>
              (api'.ret = (now - last_failure_time > timeout))]_vars

\* The breaker failed in half-open (so more than the reset timeout after
\* the failure that opened it) and still denies, the reset timeout after
\* that second failure.
C6_Witness ==
    /\ api.op = "call_failed"
    /\ api.pre = "half-open"
    /\ state = "open"
    /\ now - last_failure_time = timeout
    /\ ~can_attempt_ret

\* C7: in a buffered call, an answer with status 200 and a body that is
\* not blank ends the call: the stripped text is returned, the answered
\* request is the last one sent, and the call has reported one
\* call_succeeded and no call_failed, also after failed attempts.
C7_FirstSuccessEndsCall ==
    (Buffered /\ attempt_ok(last_outcome)) =>
        /\ pc = "done"
        /\ result = Some(strip(last_outcome.body.text))
        /\ result.text # <<>>
        /\ http_requests = attempt + 1
        /\ cb_succ = 1
        /\ cb_fail = 0

C7_Witness ==
    /\ Buffered
    /\ attempt_ok(last_outcome)
    /\ attempt = 1
    /\ pc = "done"
    /\ cb_succ = 1

\* C8: a buffered call whose attempts all failed returns None and has
\* reported exactly one call_failed; a failed attempt that is not the last
\* leaves the breaker alone, the last one adds 1 to failures, and a
\* buffered call opens the breaker only at that report.
C8_OneFailurePerExhaustedCall ==
    /\ [](Buffered => cb_fail <= 1)
    /\ [](Exhausted => (result = None /\ cb_fail = 1 /\ cb_succ = 0))
    /\ [][(Buffered /\ pc \in {"awaiting", "sleeping"}) =>
             /\ pc' # "done" => UNCHANGED <<state, failures>>
             /\ (pc' = "done" /\ result'.is_none) =>
                    (failures' = failures + 1 /\ cb_fail' = 1)
             /\ (state # "open" /\ state' = "open") =>
                    (pc' = "done" /\ failures' >= failure_threshold)]_vars

C8_Witness ==
    /\ Exhausted
    /\ max_retries = 3
    /\ http_requests = 3
    /\ cb_fail = 1
    /\ failures = 1
    /\ state = "closed"

\* C9: a buffered call sends at most max_retries requests, and exactly
\* max_retries when every attempt failed.
C9_AtMostMaxRetriesRequests ==
    /\ Buffered => http_requests <= max_retries
    /\ Exhausted => http_requests = max_retries

C9_Witness ==
    /\ Exhausted
    /\ max_retries = 3
    /\ http_requests = 3
    /\ last_outcome.kind = "timeout"

\* C10: in a buffered call the k-th sleep (k from 0) asks for 2^k seconds,
\* follows the failed attempt k and ends before attempt k+1 is sent; there
\* is no sleep after a successful attempt nor after the last attempt, so
\* an exhausted call with max_retries = 3 sleeps 1 s then 2 s.
C10_BackoffSleeps ==
    (Buffered /\ gate = "passed") =>
        /\ \A i \in 1..Len(sleeps) : sleeps[i] = 2 ^ (i - 1)
        /\ pc = "awaiting" =>
               /\ Len(sleeps) = attempt
               /\ http_requests = attempt + 1
               /\ attempt > 0 => now >= wake_at
        /\ pc = "sleeping" =>
               /\ Len(sleeps) = attempt + 1
               /\ http_requests = attempt + 1
               /\ attempt + 1 < max_retries
               /\ ~attempt_ok(last_outcome)
               /\ wake_at >= sleeps[Len(sleeps)]
        /\ pc = "done" => Len(sleeps) = attempt
        /\ (Exhausted /\ max_retries = 3) => sleeps = <<1, 2>>

C10_Witness ==
    /\ Exhausted
    /\ max_retries = 3
    /\ sleeps = <<1, 2>>

\* The ordered pairs of distinct languages among French, English, Arabic.
DistinctPairs == {p \in {"fr", "en", "ar"} \X {"fr", "en", "ar"} :
                     p[1] # p[2]}

\* The step enters translate_text, or translate_text_stream, with the pair.
EntersTranslate(src, tgt) ==
    \/ /\ op' \in {"translate_text", "_generate"}
       /\ BufferedCall("translate_text", src, tgt)
    \/ /\ op' \in {"translate_text_stream", "_generate_stream"}
       /\ StreamCall("translate_text_stream", src, tgt)

\* C11: a translate call, buffered or streaming, whose language pair is
\* not one of the six ordered pairs of distinct languages among fr, en, ar
\* ends at once with no result and no token and sends no HTTP request;
\* a call with one of these six pairs is never refused for its pair.
C11_UnknownPairSendsNothing ==
    [][EntryStep =>
          /\ \/ /\ pc' = "done"
                /\ result' = None
                /\ yielded' = <<>>
                /\ http_requests' = 0
                /\ conn_open' = FALSE
             \/ \A p \in (Langs \X Langs) \ DistinctPairs :
                    ~EntersTranslate(p[1], p[2])
          /\ gate' = "no_prompt" =>
                 \A p \in DistinctPairs : ~EntersTranslate(p[1], p[2])]_vars

\* A translate call was refused for its pair by a breaker that permits.
C11_Witness ==
    /\ gate = "no_prompt"
    /\ op \in {"translate_text", "translate_text_stream"}
    /\ pc = "done"
    /\ state = "closed"
    /\ http_requests = 0

\* C12: of two tasks that share one client, at most one has a request in
\* flight that the breaker permitted for the current half-open window
\* (the window lasts from the open to half-open transition to the next
\* call_succeeded or call_failed).
C12_OneProbeInFlight ==
    ~(/\ state = "half-open"
      /\ pc = "awaiting"
      /\ parked.pc = "awaiting"
      /\ window >= 0
      /\ parked.window = window)

Stream == op \in StreamOps

\* C13: a streaming call that ends at a record with done = true has
\* reported exactly one call_succeeded and no call_failed; one that ends
\* with a timeout or another exception has reported exactly one
\* call_failed and no call_succeeded; while the generator runs it has
\* reported nothing.
C13_StreamReportsOnce ==
    Stream =>
        /\ pc # "done" => (cb_succ = 0 /\ cb_fail = 0)
        /\ (pc = "done" /\ exit_path = "done_record") =>
               (cb_succ = 1 /\ cb_fail = 0)
        /\ (pc = "done" /\ exit_path = "exception") =>
               /\ last_outcome.kind \in {"timeout", "error"}
               /\ cb_succ = 0
               /\ cb_fail = 1

\* The done flag came with the second token.
C13_Witness ==
    /\ Stream
    /\ pc = "done"
    /\ exit_path = "done_record"
    /\ Len(yielded) = 2
    /\ cb_succ = 1
    /\ state = "closed"

\* C14: the streaming response is open only while the generator reads
\* lines or is suspended at a yield; a generator that has ended, by
\* whatever path (refused, non-200 status, done record, end of the
\* response, exception, closed by its consumer), has released it.
C14_StreamReleasesConnection ==
    /\ conn_open => (Stream /\ pc \in {"s_lines", "s_yield"})
    /\ (Stream /\ pc = "done") =>
           /\ conn_open = FALSE
           /\ exit_path \in {"denied", "no_prompt", "status", "done_record",
                              "exhausted", "exception", "closed"}

\* The consumer stopped after the first token of a response that was
\* not finished.
C14_Witness ==
    /\ Stream
    /\ pc = "done"
    /\ exit_path = "closed"
    /\ Len(yielded) = 1
    /\ lines_read < MaxLines
    /\ conn_open = FALSE

\* C15: a streaming call sends one HTTP request at most.  A line that is
\* read adds its fragment to the yielded tokens, after those already
\* yielded, exactly when it is a record with a non-empty fragment; a
\* blank line or a line that is not JSON leaves the stream running; a
\* record with done = true ends the generator, after the yield of its
\* own fragment when it has one; no other step of the call yields.
C15_StreamYieldsFragments ==
    /\ [](Stream => http_requests <= 1)
    /\ [][pc = "s_lines" =>
             \A l \in StreamLines :
                 StreamLine(l) =>
                     /\ yielded' = IF l.kind = "record" /\ l.token # ""
                                   THEN Append(yielded, l.token)
                                   ELSE yielded
                     /\ l.kind \in {"blank", "invalid"} =>
                            (pc' = "s_lines" /\ conn_open' = TRUE)
                     /\ (l.kind = "record" /\ l.done) =>
                            IF l.token = ""
                            THEN pc' = "done"
                            ELSE pc' = "s_yield" /\ pending_done' = TRUE]_vars
    /\ [][(Stream /\ pc # "s_lines" /\ pc' # "idle") =>
             yielded' = yielded]_vars
    /\ [][(pc = "s_yield" /\ pending_done) =>
             pc' \in {"s_yield", "done"}]_vars

\* Two lines were read, one of them gave a fragment, and a record with
\* the done flag ended the stream.
C15_Witness ==
    /\ Stream
    /\ pc = "done"
    /\ exit_path = "done_record"
    /\ lines_read = 2
    /\ Len(yielded) = 1
    /\ http_requests = 1

\* The document translate_file runs on, or ran on last.
CurrentDoc == file_contents[file_idx].content

\* translate_file has run on a document that parses and is over, by a
\* return or by an exception.
RanOnParsed ==
    /\ file_idx >= 1
    /\ tf_pc \in {"ended", "raised"}
    /\ CurrentDoc.parses

\* The last pair translate_file yielded is the done pair with a result.
EndsWithDone ==
    /\ tf_yields # <<>>
    /\ tf_yields[Len(tf_yields)].status = "done"
    /\ Len(tf_yields[Len(tf_yields)].result) = 1

RECURSIVE SumWords(_)
SumWords(texts) ==
    IF texts = <<>> THEN 0 ELSE Len(Head(texts)) + SumWords(Tail(texts))

\* C16: for a document that parses and has n translatable paragraphs,
\* translate_file yields n translating pairs with current_element 1..n in
\* this order, total_elements n and no result, then one done pair with
\* the result, and nothing else.
C16_EventsPerSegment ==
    RanOnParsed =>
        LET n == Len(Translatable(CurrentDoc))
        IN /\ Len(tf_yields) = n + 1
           /\ \A k \in 1..n :
                  tf_yields[k] = Progress("translating", k, n, FALSE, <<>>)
           /\ tf_yields[n + 1].status = "done"
           /\ tf_yields[n + 1].current_element = n
           /\ tf_yields[n + 1].total_elements = n
           /\ Len(tf_yields[n + 1].result) = 1

\* C17: translate_file calls translate_text of its client once per
\* paragraph that is not empty and never for an empty one, and the run
\* ends with the done pair and an output whose root language is the
\* target language.
C17_OneTranslateTextPerParagraph ==
    RanOnParsed =>
        /\ client_calls =
               [k \in 1..Len(Translatable(CurrentDoc)) |-> "translate_text"]
        /\ EndsWithDone
        /\ tf_yields[Len(tf_yields)].result[1].translated_content.lang
               = target_lang

\* C18: a segment for which the client gave no text is left as it was and
\* is not counted as translated, its words are counted, and the run goes
\* on: the document ends with the done pair and a result whatever the
\* number of such segments.
C18_FailedSegmentSkipped ==
    (RanOnParsed /\ client_calls # <<>>) =>
        /\ tf_pc = "ended"
        /\ EndsWithDone
        /\ LET r == tf_yields[Len(tf_yields)].result[1]
           IN /\ r.translated_content.paras = CurrentDoc.paras
              /\ r.elements_translated = tf_locals.translated_count
              /\ r.total_words = SumWords(Translatable(CurrentDoc))

\* C19: for a document that does not parse, translate_file yields one
\* pair, with status error, a message and no result, and returns without
\* asking its client for anything; generate_stream keeps no result for
\* it and goes on with the document that follows.
C19_ParseFailureOneEvent ==
    /\ []((file_idx >= 1 /\ ~CurrentDoc.parses) =>
              /\ tf_pc = "ended"
              /\ tf_yields = <<Progress("error", 0, 0, TRUE, <<>>)>>
              /\ client_calls = <<>>
              /\ file_idx < Len(file_contents) => gs_pc = "running")
    /\ [][(/\ file_idx >= 1
           /\ ~CurrentDoc.parses
           /\ file_idx < Len(file_contents)) =>
              /\ file_idx' = file_idx + 1
              /\ results' = results \o tf_yields'[1].result]_vars
    /\ [][(file_idx' = file_idx + 1 /\ ~CurrentDoc'.parses) =>
              /\ results' = results
              /\ Len(events') = Len(events) + 1
              /\ events'[Len(events')].data.status = "error"
              /\ events'[Len(events')].data.error = TRUE]_vars

\* The first document did not parse, the second was translated.
C19_Witness ==
    /\ file_idx = 2
    /\ ~file_contents[1].content.parses
    /\ tf_pc = "ended"
    /\ Len(results) = 1
    /\ Len(events) = 2

\* The complete events generate_stream has sent.
Artifacts == SelectSeq(events, LAMBDA e : e.type = "complete")

\* generate_stream went through the whole batch.
BatchDone == gs_pc = "closed" /\ events[Len(events)].type = "DONE"

\* The artifact is the archive of the results: one entry per result, in
\* order, with its output name and its content.
IsArchiveOfResults(a) ==
    /\ a.data.content_type = "application/zip"
    /\ Len(a.data.content) = Len(results)
    /\ \A i \in 1..Len(results) :
           /\ a.data.content[i].name = results[i].translated_filename
           /\ a.data.content[i].content = results[i].translated_content

\* The artifact is the output of the one result.
IsDocumentOfResult(a) ==
    /\ a.data.content_type = "application/xml"
    /\ a.data.filename = results[1].translated_filename
    /\ a.data.content = results[1].translated_content

\* C20 as claimed: the artifact is the XML of a document only when the
\* batch had exactly one document; when it had more than one the
\* artifact is the archive of the results; without a result there is no
\* artifact.
C20_ArtifactByDocuments ==
    BatchDone =>
        /\ results = <<>> => Artifacts = <<>>
        /\ results # <<>> =>
               /\ Len(Artifacts) = 1
               /\ IF Len(file_contents) = 1
                  THEN IsDocumentOfResult(Artifacts[1])
                  ELSE IsArchiveOfResults(Artifacts[1])

\* C20 amended: the artifact is the XML of a document exactly when one
\* document of the batch produced a result, whatever the number of
\* documents; with more than one result it is the archive of the
\* results; without a result, or when the batch was cut short, there is
\* no artifact.
C20_ArtifactByResults ==
    /\ Artifacts # <<>> => BatchDone
    /\ BatchDone =>
           /\ results = <<>> => Artifacts = <<>>
           /\ results # <<>> =>
                  /\ Len(Artifacts) = 1
                  /\ IF Len(results) = 1
                     THEN IsDocumentOfResult(Artifacts[1])
                     ELSE IsArchiveOfResults(Artifacts[1])

\* Two documents gave a result each, and the archive has two entries.
C20_Witness ==
    /\ BatchDone
    /\ Len(results) = 2
    /\ Len(Artifacts) = 1
    /\ Artifacts[1].data.content_type = "application/zip"
    /\ Len(Artifacts[1].data.content) = 2

\* The events generate_stream sent before its last one.
Earlier == SubSeq(events, 1, Len(events) - 1)

\* C21: the events of a run end with the [DONE] marker; when the run
\* completed with an output, exactly one complete event was sent, right
\* before the marker and after every progress event.
C21_EndsWithDoneMarker ==
    gs_pc = "closed" =>
        /\ events # <<>>
        /\ events[Len(events)].type = "DONE"
        /\ \A k \in 1..(Len(events) - 1) : events[k].type # "DONE"
        /\ results # <<>> =>
               /\ Len(Artifacts) = 1
               /\ Len(events) >= 2
               /\ events[Len(events) - 1].type = "complete"
               /\ \A k \in 1..(Len(events) - 2) :
                      events[k].type = "progress"

\* The names under which an event could carry the number of segments
\* that were not translated.
FailureCounts ==
    {"failed", "failed_count", "failures", "elements_failed",
     "elements_translated", "translated_count"}

\* The event tells how many segments failed.
CarriesFailureCount(e) == DOMAIN e.data \cap FailureCounts # {}

\* C22: a run ends with an artifact that comes with the count of the
\* segments that failed, or with an error event as its last event.
C22_ArtifactWithFailureCountOrError ==
    gs_pc = "closed" =>
        \/ events[Len(events)].type = "error"
        \/ /\ Len(Artifacts) = 1
           /\ \/ CarriesFailureCount(Artifacts[1])
              \/ \E k \in 1..Len(events) :
                     /\ events[k].type = "progress"
                     /\ events[k].data.status = "done"
                     /\ CarriesFailureCount(events[k])

\* _load_json_payload has been called and is over.
Recovered == payload # NotCalled

\* C23: _load_json_payload returns an object or raises the HTTP error
\* 502: it returns no list, string, number, boolean or null, and raises
\* nothing else.
C23_ObjectOrInvalidPayload ==
    Recovered =>
        \/ payload.raised = "" /\ payload.value.t = "dict"
        \/ payload.raised = "HTTPException" /\ payload.status_code = 502

\* C24: for an object x without control character, _load_json_payload
\* of json.dumps(x) returns x, whatever its string values hold.
C24_RecoversSerializedObject ==
    \A x \in Objects :
        (Recovered /\ raw_payload = dumps(x)) => payload = Returned(x)

\* The fenced json blocks of the raw text that json.loads accepts once
\* they are stripped and sanitized.
BlocksThatParse ==
    {k \in DOMAIN FindBlocks(raw_payload, 1) :
         loads(sanitize_json_string(
                   strip(FindBlocks(raw_payload, 1)[k]))).ok}

\* C25: when some fenced json block of the raw text parses, the value
\* returned is the value of the last block that parses, whatever the
\* brace scan or the parse of the whole text would give.
C25_LastParsingBlockWins ==
    (Recovered /\ BlocksThatParse # {}) =>
        LET last == CHOOSE k \in BlocksThatParse :
                        \A j \in BlocksThatParse : j <= k
        IN payload =
               Returned(loads(sanitize_json_string(
                            strip(FindBlocks(raw_payload, 1)[last]))).v)

\* Three blocks after an object: the last one does not parse, the one
\* before holds a list and is returned, not the first block and not the
\* object that the brace scan would find.
C25_Witness ==
    /\ Recovered
    /\ Len(FindBlocks(raw_payload, 1)) = 2
    /\ BlocksThatParse = {1}
    /\ StartsWith(raw_payload, 1, <<"{", "\"", "k", "\"", ":", "1", "}">>)
    /\ payload = Returned(JList(<<JNum(<<"1">>)>>))

\* The payload has the members of the tier of its model.
TierShape(p) ==
    IF is_cloud_model(p.model)
    THEN /\ "system" \notin DOMAIN p
         /\ "options" \notin DOMAIN p
         /\ p.prompt = <<"instruction", "text">>
    ELSE /\ "system" \in DOMAIN p
         /\ "options" \in DOMAIN p
         /\ p.system = "instruction"
         /\ p.prompt = <<"text">>

\* C26: for each task, buffered or streaming, the request of a model
\* whose name ends with -cloud has no system and no options member and
\* its prompt starts with the instruction; the request of another model
\* has both members and no instruction in its prompt.  The stream member
\* is false on the buffered path and true on the streaming path.
C26_RequestByTier ==
    /\ [](request # NoRequest =>
              /\ TierShape(request)
              /\ request.model = model
              /\ "stream" \in DOMAIN request
              /\ request.stream = (op = "_generate_stream"))
    /\ [][\A o \in BufferedOps \ {"_generate"} :
              (pc = "idle" /\ op' = "_generate"
                   /\ BufferedCall(o, "fr", "en"))
                  => /\ request' # NoRequest
                     /\ TierShape(request')
                     /\ request'.stream = FALSE]_vars
    /\ [][\A o \in StreamOps \ {"_generate_stream"} :
              (pc = "idle" /\ op' = "_generate_stream"
                   /\ StreamCall(o, "fr", "en"))
                  => /\ request' # NoRequest
                     /\ TierShape(request')
                     /\ request'.stream = TRUE]_vars

\* A streaming request of a model of the cloud tier is in flight.
C26_Witness ==
    /\ is_cloud_model(model)
    /\ op = "_generate_stream"
    /\ pc = "s_connect"
    /\ request = [model |-> model, prompt |-> <<"instruction", "text">>,
                  stream |-> TRUE]

\* The positions of the elements of a tree.
Positions(rt) ==
    LET order == DocOrder(rt, <<>>) IN {order[i] : i \in 1..Len(order)}

\* C27: for every parsed document, extract_translatable_segments returns
\* no element whose own tag or whose parent's tag is in the ignore-list
\* and no element whose direct text is absent or blank, and every text it
\* returns is the trimmed direct text of its element.
C27_NoIgnoredNoEmptySegment ==
    (segments.called /\ root # <<>>) =>
        \A i \in 1..Len(segments.value) :
            LET s == segments.value[i]
                elem == ElementAt(root[1], s.elem)
            IN /\ s.elem # <<>>
               /\ elem.tag.name \notin IGNORE_ELEMENTS
               /\ ElementAt(root[1], getparent(s.elem)).tag.name
                      \notin IGNORE_ELEMENTS
               /\ elem.text # <<>>
               /\ \E k \in 1..Len(elem.text[1]) :
                      elem.text[1][k] \notin StrWhitespace
               /\ s.text # <<>>
               /\ s.text[1] \notin StrWhitespace
               /\ s.text[Len(s.text)] \notin StrWhitespace
               /\ \E a, b \in 0..Len(elem.text[1]) :
                      /\ elem.text[1] =
                             SubSeq(elem.text[1], 1, a) \o s.text
                                 \o SubSeq(elem.text[1],
                                           Len(elem.text[1]) - b + 1,
                                           Len(elem.text[1]))
                      /\ \A k \in 1..a : elem.text[1][k] \in StrWhitespace
                      /\ \A k \in 1..b :
                             elem.text[1][Len(elem.text[1]) - k + 1]
                                 \in StrWhitespace

\* An extraction returned a segment from a tree that holds a sc:para with
\* text under a sc:code, and a blank sc:para.
C27_Witness ==
    /\ segments.called
    /\ root # <<>>
    /\ Len(segments.value) >= 1
    /\ \E p, q \in Positions(root[1]) \ {<<>>} :
           /\ ElementAt(root[1], p).tag = Tag("sc", "para")
           /\ ElementAt(root[1], p).text = <<Padded>>
           /\ ElementAt(root[1], getparent(p)).tag.name \in IGNORE_ELEMENTS
           /\ ElementAt(root[1], q).tag = Tag("sc", "para")
           /\ ElementAt(root[1], q).text = <<Blank>>

\* The elements with the tag of the element at pos under its parent.
SameTagSiblings(rt, pos) ==
    LET kids == ElementAt(rt, getparent(pos)).kids
    IN {i \in 1..Len(kids) : kids[i].tag = ElementAt(rt, pos).tag}

\* C28: two distinct elements of a parsed document never get equal
\* locators, no element appears twice in the sequence one extraction
\* returns, and the last step of a locator carries the 1-based rank of
\* the element among its same-tag siblings exactly when there is more
\* than one.
C28_LocatorIdentifiesOneElement ==
    root # <<>> =>
        /\ \A p, q \in Positions(root[1]) :
               p # q => get_element_xpath(root[1], p)
                            # get_element_xpath(root[1], q)
        /\ \A p \in Positions(root[1]) \ {<<>>} :
               LET loc == get_element_xpath(root[1], p)
                   same == SameTagSiblings(root[1], p)
               IN /\ Len(loc) = Len(p) + 1
                  /\ loc[Len(loc)].tag = ElementAt(root[1], p).tag
                  /\ Cardinality(same) = 1 => loc[Len(loc)].index = 0
                  /\ Cardinality(same) > 1 =>
                         loc[Len(loc)].index =
                             Cardinality({i \in same : i <= p[Len(p)]})
        /\ segments.called =>
               \A i, j \in 1..Len(segments.value) :
                   i # j => /\ segments.value[i].elem # segments.value[j].elem
                            /\ segments.value[i].xpath
                                   # segments.value[j].xpath

\* An extraction returned two sc:para siblings, the second with index 2.
C28_Witness ==
    /\ segments.called
    /\ root # <<>>
    /\ \E i, j \in 1..Len(segments.value) :
           /\ i # j
           /\ getparent(segments.value[i].elem)
                  = getparent(segments.value[j].elem)
           /\ segments.value[j].xpath[Len(segments.value[j].xpath)]
                  = Step(Tag("sc", "para"), 2)

\* C29: after a call of parse that returned False, at any place in a
\* sequence of calls on one processor, an extraction returns the empty
\* sequence and a serialisation returns no document.
C29_NothingAfterFailedParse ==
    (parsed # <<>> /\ ~parsed[Len(parsed)]) =>
        /\ segments.called => segments.value = <<>>
        /\ output.called => output.bytes = <<>>

\* Encoding names are compared without regard to case.
EncodingName(e) == IF e = <<"utf-8">> THEN <<"UTF-8">> ELSE e

\* The encoding a serialisation has to declare for an input that declared
\* d.
ExpectedEncoding(d) == IF d = <<>> THEN <<"UTF-8">> ELSE d

\* The last input that parse accepted.
LastParsed ==
    LET ok == {i \in 1..Len(parsed) : parsed[i]}
    IN xml_contents[CHOOSE i \in ok : \A j \in ok : j <= i]

\* C30: what to_bytes returns for a parsed document, and the content of
\* every result of translate_file, declares the encoding the input
\* declared, UTF-8 if it declared none, keeps the namespace declarations
\* and is not pretty-printed.
C30_SerializationKeepsDeclaration ==
    /\ (output.called /\ output.bytes # <<>>) =>
           /\ output.bytes[1].xml_declaration
           /\ EncodingName(output.bytes[1].encoding)
                  = EncodingName(ExpectedEncoding(
                                     DeclaredEncoding(LastParsed)))
           /\ output.bytes[1].nsmap = SCENARI_NAMESPACES
           /\ ~output.bytes[1].pretty_print
    /\ (tf_pc = "ended" /\ tf_yields # <<>>
            /\ tf_yields[Len(tf_yields)].result # <<>>) =>
           LET content ==
                   tf_yields[Len(tf_yields)].result[1].translated_content
           IN /\ content.xml_declaration
              /\ EncodingName(content.encoding)
                     = EncodingName(ExpectedEncoding(CurrentDoc.declared))
              /\ ~content.pretty_print

\* C31: when no fenced json block parses and the cleaned text (trimmed,
\* one opening and one closing fence removed) is valid JSON as a whole,
\* the call returns the value of that whole text.
C31_WholeTextBeforeBraceScan ==
    (/\ payload # NotCalled
     /\ ~TryBlocks(FindBlocks(raw_payload, 1),
                   Len(FindBlocks(raw_payload, 1))).ok
     /\ loads(Cleaned(raw_payload)).ok) =>
        payload = Returned(loads(Cleaned(raw_payload)).v)

\* The states of the inner loop of the brace scan after each character
\* of text from the place i on, prev being the state before it: the
\* depth, whether a string is open, whether the next character is
\* escaped, and whether the character read was a brace that counted.
RECURSIVE ScanStates(_, _, _)
ScanStates(text, i, prev) ==
    IF i > Len(text) THEN <<>>
    ELSE LET plain == ~prev.escaped /\ text[i] # "\\"
             brace == plain /\ ~prev.quoted /\ text[i] \in {"{", "}"}
             cur == [depth |-> IF ~brace THEN prev.depth
                               ELSE IF text[i] = "{" THEN prev.depth + 1
                               ELSE prev.depth - 1,
                     quoted |-> IF plain /\ text[i] = "\""
                                THEN ~prev.quoted ELSE prev.quoted,
                     escaped |-> ~prev.escaped /\ text[i] = "\\",
                     counted |-> brace]
         IN <<cur>> \o ScanStates(text, i + 1, cur)

\* The states of the scan started at the "{" at b: the one at index k is
\* the state after the character at b + k - 1.
ScanFrom(text, b) ==
    ScanStates(text, b, [depth |-> 0, quoted |-> FALSE, escaped |-> FALSE,
                         counted |-> FALSE])

\* The balanced candidate that starts at the "{" at b: up to the first
\* counted "}" that brings the depth back to 0; <<>> when there is none.
Candidate(text, b) ==
    LET st == ScanFrom(text, b)
        ends == {k \in 1..Len(st) : st[k].counted /\ st[k].depth = 0}
    IN IF ends = {} THEN <<>>
       ELSE SubSeq(text, b,
                   b - 1 + CHOOSE k \in ends : \A j \in ends : k <= j)

\* The places of the "{" whose candidate parses once sanitized.
ParsingCandidates(text) ==
    {b \in 1..Len(text) :
         /\ text[b] = "{"
         /\ Candidate(text, b) # <<>>
         /\ loads(sanitize_json_string(Candidate(text, b))).ok}

\* C32: the brace scan ends on every cleaned text, with the parse of the
\* candidate of the leftmost "{" whose balanced candidate parses, the
\* matching "}" being found with braces inside string literals ignored
\* and backslash escapes honoured, and with nothing when no candidate
\* parses; a call in which no fenced block parsed returns that parse.
C32_FirstParsingCandidate ==
    payload # NotCalled =>
        LET cleaned == Cleaned(raw_payload)
            found == ParsingCandidates(cleaned)
            first == CHOOSE b \in found : \A c \in found : b <= c
            scan == BraceScan(cleaned, Find(cleaned, <<"{">>, 1))
        IN /\ found = {} => scan = NoParse
           /\ found # {} =>
                  /\ scan = loads(sanitize_json_string(
                                      Candidate(cleaned, first)))
                  /\ ~TryBlocks(FindBlocks(raw_payload, 1),
                                Len(FindBlocks(raw_payload, 1))).ok =>
                         payload = Returned(scan.v)

\* A call returned the candidate of a second "{", the first one being
\* unbalanced or no JSON.
C32_Witness ==
    LET cleaned == Cleaned(raw_payload)
        found == ParsingCandidates(cleaned)
    IN /\ payload # NotCalled
       /\ payload.raised = ""
       /\ FindBlocks(raw_payload, 1) = <<>>
       /\ found # {}
       /\ \E b \in 1..Len(cleaned) :
              /\ cleaned[b] = "{"
              /\ \A c \in found : b < c

\* A call went through the scan of a text whose only candidate that
\* parses holds a "}" inside a string literal.
C32_WitnessInString ==
    LET cleaned == Cleaned(raw_payload)
    IN /\ payload # NotCalled
       /\ \E b, i \in 1..Len(cleaned) :
              /\ b < i
              /\ cleaned[b] = "{"
              /\ cleaned[i] = "}"
              /\ ScanFrom(cleaned, b)[i - b + 1].quoted
              /\ ParsingCandidates(cleaned) = {b}

\* For each character of text, the state of a quote and escape aware
\* scanner before it: whether a string literal is open and whether the
\* character follows a backslash that escapes it.
RECURSIVE QuoteStates(_, _, _, _)
QuoteStates(text, i, quoted, escaped) ==
    IF i > Len(text) THEN <<>>
    ELSE <<[quoted |-> quoted, escaped |-> escaped]>>
             \o QuoteStates(text, i + 1,
                            IF ~escaped /\ text[i] = "\""
                            THEN ~quoted ELSE quoted,
                            ~escaped /\ text[i] = "\\")

\* The escape sequences of JSON for the control characters.
EscapeSequence ==
    [c \in ControlChars |->
         IF c = "\n" THEN <<"\\", "n">>
         ELSE IF c = "\r" THEN <<"\\", "r">>
         ELSE IF c = "\t" THEN <<"\\", "t">>
         ELSE <<"\\", "u", "0", "0", "0", "c">>]

\* The text in which the characters at the places of the set escapes are
\* replaced by their escape sequences.
RECURSIVE WithEscapes(_, _, _)
WithEscapes(text, i, escapes) ==
    IF i > Len(text) THEN <<>>
    ELSE (IF i \in escapes THEN EscapeSequence[text[i]] ELSE <<text[i]>>)
             \o WithEscapes(text, i + 1, escapes)

\* The places of the control characters of text inside a string literal.
ControlInString(text) ==
    LET st == QuoteStates(text, 1, FALSE, FALSE)
    IN {i \in 1..Len(text) : text[i] \in ControlChars /\ st[i].quoted}

\* Those among them that follow a backslash which escapes them.
ControlAfterBackslash(text) ==
    LET st == QuoteStates(text, 1, FALSE, FALSE)
    IN {i \in ControlInString(text) : st[i].escaped}

\* C33 as stated: the sanitized text holds no raw control character
\* inside a string literal: each control character inside a string
\* literal of the input is replaced by its escape sequence and every
\* other character is copied.
C33_NoRawControlInString ==
    sanitized # <<>> =>
        /\ ControlInString(sanitized[1]) = {}
        /\ sanitized[1]
               = WithEscapes(raw_payload, 1, ControlInString(raw_payload))

\* C33, amended: each control character inside a string literal that does
\* not follow an escaping backslash is replaced by its escape sequence;
\* a control character right after an escaping backslash, every
\* character outside string literals and every other character is
\* copied unchanged, so that the only raw control characters left inside
\* a string literal follow a backslash.
C33_UnescapedControlInStringEscaped ==
    sanitized # <<>> =>
        /\ ControlInString(sanitized[1])
               = ControlAfterBackslash(sanitized[1])
        /\ sanitized[1]
               = WithEscapes(raw_payload, 1,
                             ControlInString(raw_payload)
                                 \ ControlAfterBackslash(raw_payload))

\* A text was sanitized that holds a control character outside a string
\* literal, which was copied, and one inside, which was replaced.
C33_Witness ==
    /\ sanitized # <<>>
    /\ ControlInString(raw_payload) # {}
    /\ ControlAfterBackslash(raw_payload) = {}
    /\ \E i \in 1..Len(raw_payload) :
           /\ raw_payload[i] \in ControlChars
           /\ i \notin ControlInString(raw_payload)
    /\ Len(sanitized[1]) > Len(raw_payload)

\* An answer with status 200 whose body holds no text once stripped.
EmptyAnswer(o) == o.kind = "200" /\ generated(o) = <<>>

\* C34: in the buffered path an attempt answered with status 200 and an
\* empty or blank body is a failed attempt: with attempts left it is
\* followed by the backoff sleep and, after it, by one more request,
\* without a report to the breaker; after the last attempt the call
\* returns no result and has reported one failure and no success.
C34_EmptyAnswerIsFailedAttempt ==
    (op = "_generate" /\ EmptyAnswer(last_outcome)) =>
        /\ pc \in {"sleeping", "awaiting", "done"}
        /\ result = None
        /\ cb_succ = 0
        /\ pc = "sleeping" =>
               /\ attempt < max_retries - 1
               /\ Len(sleeps) = attempt + 1
               /\ sleeps[Len(sleeps)] = pow2(attempt)
               /\ http_requests = attempt + 1
               /\ cb_fail = 0
        /\ pc = "awaiting" =>
               /\ attempt >= 1
               /\ http_requests = attempt + 1
               /\ Len(sleeps) = attempt
               /\ cb_fail = 0
        /\ pc = "done" =>
               /\ http_requests = max_retries
               /\ Len(sleeps) = max_retries - 1
               /\ cb_fail = 1
               /\ api.op = "call_failed"

\* A call with several attempts is over, its last answer was a blank
\* body, it slept between the attempts and reported one failure.
C34_Witness ==
    /\ op = "_generate"
    /\ pc = "done"
    /\ last_outcome = [kind |-> "200", body |-> Some(<<" ">>)]
    /\ max_retries >= 2
    /\ Len(sleeps) = max_retries - 1
    /\ result = None
    /\ cb_fail = 1

\* C35: when a streaming generation ended on a backend failure (non-200
\* status, timeout, transport error) or was denied by the breaker, the
\* events delivered to the consumer end with an error event and hold no
\* completion marker.
C35_FailedStreamEndsWithError ==
    (/\ op \in StreamOps
     /\ pc = "done"
     /\ exit_path \in {"status", "exception", "denied"}) =>
        /\ stream_generator[Len(stream_generator)].type = "error"
        /\ \A k \in 1..Len(stream_generator) :
               stream_generator[k].type # "DONE"

\* C36: a streaming attempt that the breaker permitted and that ran to
\* its end has reported exactly one outcome to the breaker, and the
\* breaker is not half-open after a probe that ended.
C36_StreamAttemptReportsOnce ==
    (/\ op = "_generate_stream"
     /\ gate = "passed"
     /\ pc = "done"
     /\ exit_path # "closed") =>
        /\ cb_succ + cb_fail = 1
        /\ window # -1 => state # "half-open"

\* C37: a translate_text call that is rejected because its language pair
\* is unknown leaves the breaker as it was: same state, same failure
\* count, same last-failure time, whatever state the breaker was in.
C37_UnknownPairLeavesBreaker ==
    [][(/\ \E p \in (Langs \X Langs) \ SYSTEM_PROMPTS :
               BufferedCall("translate_text", p[1], p[2])
        /\ op' = "translate_text"
        /\ gate' = "no_prompt") => UNCHANGED breaker]_vars

\* C38: in every state a breaker with a threshold of at least 1 reaches
\* by call_failed, call_succeeded and can_attempt in any order, closed
\* implies failures < failure_threshold, open and half-open imply
\* failures >= failure_threshold, failures is not negative and the state
\* is one of closed, open, half-open.
C38_BreakerStateMatchesCount ==
    failure_threshold >= 1 =>
        /\ state \in {"closed", "open", "half-open"}
        /\ failures >= 0
        /\ state = "closed" => failures < failure_threshold
        /\ state \in {"open", "half-open"} => failures >= failure_threshold

\* A probe failed and the breaker went half-open again, its count above
\* the threshold.
C38_Witness ==
    /\ state = "half-open"
    /\ failures > failure_threshold
    /\ api.op = "can_attempt"
    /\ api.pre = "open"

\* The tree el has an element at the position.
RECURSIVE HasElementAt(_, _)
HasElementAt(el, pos) ==
    \/ pos = <<>>
    \/ /\ Head(pos) <= Len(el.kids)
       /\ HasElementAt(el.kids[Head(pos)], Tail(pos))

\* C39: every paragraph that translate_file counted in elements_translated
\* is part of the serialized output, with its translated text, also when
\* translatable paragraphs are nested: no replacement detaches a segment
\* processed later, and elements_translated is at most the number of
\* paragraphs of the output.
C39_CountedParagraphsInOutput ==
    unit_result # <<>> =>
        LET out == unit_result[1].translated_content
        IN /\ unit_result[1].elements_translated
                  <= Len(xpath(out, TRANSLATABLE_TAG))
           /\ \A k \in 1..Len(unit_replaced) :
                  /\ HasElementAt(out, unit_replaced[k])
                  /\ ElementAt(out, unit_replaced[k]).tag = TRANSLATABLE_TAG
                  /\ ElementAt(out, unit_replaced[k]).text
                         = <<TranslatedText>>
====
